---- MODULE Spec2Model ----
(***************************************************************************)
(* Model of semgrep's result-reporting layer: the OutputHandler of         *)
(* semgrep/output.py (accumulate -> close -> render -> deliver -> raise),  *)
(* the managed_output scope and the invoke_semgrep driver of               *)
(* semgrep/semgrep_main.py.                                                *)
(***************************************************************************)
EXTENDS Integers, Sequences, FiniteSets, TLC

VARIABLES
    scope,      \* which driver owns the handler: "managed_output" | "invoke_semgrep"
    pc,         \* position of the driver: "body" | "except" | "finally" | "close" | "done"
    self,       \* the OutputHandler object (its fields, its stdout and the logger stream)
    pending,    \* the exception in flight out of the scope body (None when there is none)
    ops,        \* number of handler calls made by the body so far
    close_calls,\* number of close() calls made on the object
    late_calls, \* number of handler calls made on the object after close()
    saved,      \* writes made by save_output: <<destination, via, output>>
    rendered,   \* number of build_output invocations
    delivery,   \* what the environment did to close()'s writes ("none" before close)
    ingested,   \* the structured errors handed to the object so far
    repeated,   \* TRUE once an error value-equal to an earlier one was handed over
    thrown,     \* the exception the scope body raised (None when it did not raise)
    raised,     \* the exception close() raised (None when it returned or was not called)
    resolved,   \* close()'s locals final_error/error_stats at the final_raise call
    escaped,    \* the exceptions that left the scope, in order
    before,     \* the OutputHandler object as it was when close() (or, for a handler
                \* driven method by method, the last method) was called
    args,       \* the arguments of the function under test, or the calls made on the
                \* handler under test, in order (<<>> under Spec)
    result      \* what the function under test returned or raised (<<>> before the call)

vars == <<scope, pc, self, pending, ops, close_calls, late_calls, saved, rendered,
          delivery, ingested, repeated, thrown, raised, resolved, escaped, before,
          args, result>>

----------------------------------------------------------------------------
(* Bounds *)

MaxOps == 2        \* handler calls made by one scope body
MaxBatch == 2      \* errors handed to one handle_semgrep_errors call
MaxMatchLines == 4 \* source lines of a match handed to finding_to_line
MaxLinesLimit == 4 \* largest per_finding_max_lines_limit tried (0 stands for None)
MaxListLen == 2    \* matches handed to build_normal_output called on its own
MaxCalls == 2      \* calls made on a handler that is driven method by method
MaxRuleMatches == 2 \* matches of one rule in an engine run handed to main()

----------------------------------------------------------------------------
(* Exceptions and structured errors.  Every exception value is a record of *)
(* the same shape; Python's value equality of errors is record equality.   *)

Exc(cls, level, path, rule_id, msg, code) ==
    [cls |-> cls, level |-> level, path |-> path, rule_id |-> rule_id,
     msg |-> msg, code |-> code]

None == Exc("None", "", "", "", "", "")

\* SemgrepError(msg, code=FATAL_EXIT_CODE, level=Level.ERROR): the constructor
\* of semgrep/error.py, used by output.py:563 and output.py:597.
SemgrepError(msg, code) == Exc("SemgrepError", "ERROR", "", "", msg, code)

\* MatchTimeoutError(path, rule_id): a SemgrepError subclass of level WARN.
MatchTimeoutError(path, rule_id) ==
    Exc("MatchTimeoutError", "WARN", path, rule_id, "", "MATCH_TIMEOUT_EXIT_CODE")

T1 == MatchTimeoutError("a.py", "r1")
E1 == Exc("SemgrepError", "ERROR", "b.py", "", "parse failure", "FATAL_EXIT_CODE")
W1 == Exc("SemgrepError", "WARN", "b.py", "", "skipped", "FATAL_EXIT_CODE")
X1 == Exc("RuntimeError", "", "", "", "boom", "")
K1 == Exc("KeyboardInterrupt", "", "", "", "", "")

StructuredErrors == {T1, E1, W1}

\* isinstance(ex, SemgrepError)
IsSemgrepError(ex) == ex.cls \in {"SemgrepError", "MatchTimeoutError"}

\* isinstance(err, MatchTimeoutError)
IsMatchTimeoutError(ex) == ex.cls = "MatchTimeoutError"

\* isinstance(ex, Exception): what `except Exception` catches
IsException(ex) == ex.cls \notin {"None", "KeyboardInterrupt", "SystemExit"}

\* what a scope body can raise
BodyExceptions == StructuredErrors \cup {X1, K1}

\* batches of errors of length 0..MaxBatch, duplicates allowed
ErrorBatches == UNION {[1..n -> StructuredErrors] : n \in 0..MaxBatch}

----------------------------------------------------------------------------
(* Settings *)

OutputFormats == {"TEXT", "JSON", "JSON_DEBUG", "JUNIT_XML", "SARIF", "EMACS", "VIM"}

\* OutputFormat.is_json()
is_json(output_format) == output_format \in {"JSON", "JSON_DEBUG"}

\* destinations as urlparse sees them
Destinations ==
    { [name |-> "None", scheme |-> "", netloc |-> "", absolute |-> FALSE],
      [name |-> "out/report.txt", scheme |-> "", netloc |-> "", absolute |-> FALSE],
      [name |-> "https://example.com/post", scheme |-> "https",
       netloc |-> "example.com", absolute |-> FALSE] }

NoDestination == CHOOSE d \in Destinations : d.name = "None"

\* util.is_url: all([result.scheme, result.netloc])
is_url(url) == url.scheme # "" /\ url.netloc # ""

OutputSettings(output_format, output_destination, error_on_findings, verbose_errors, strict, json_stats, json_time, timeout_threshold) ==
    [output_format |-> output_format,
     output_destination |-> output_destination,
     error_on_findings |-> error_on_findings,
     verbose_errors |-> verbose_errors,
     strict |-> strict,
     output_per_finding_max_lines_limit |-> 0,
     json_stats |-> json_stats,
     json_time |-> json_time,
     timeout_threshold |-> timeout_threshold]

\* the settings a managed_output caller can pass
ManagedSettings ==
    { OutputSettings(f, d, eof, FALSE, s, FALSE, TRUE, 0) :
        f \in OutputFormats, d \in Destinations,
        eof \in BOOLEAN, s \in BOOLEAN }

\* the fixed settings of invoke_semgrep
InvokeSettings ==
    OutputSettings("JSON", NoDestination, FALSE, FALSE, FALSE, FALSE, FALSE, 0)

----------------------------------------------------------------------------
(* Findings (RuleMatch) and the results of one engine run *)

RuleMatch(id, path, message, severity, lines, start, end) ==
    [id |-> id, path |-> path, message |-> message, severity |-> severity,
     lines |-> lines, start |-> start, end |-> end]

Pos(line, col) == [line |-> line, col |-> col]

F1 == RuleMatch("r1", "a.py", "dangerous ==", "ERROR", <<"x == x">>,
                Pos(3, 1), Pos(3, 5))
F2 == RuleMatch("r2", "a.py", "useless", "WARNING", <<"pass", "pass">>,
                Pos(7, 1), Pos(8, 4))
F3 == RuleMatch("python.r1", "b.py", "dangerous ==", "INFO", <<"y == y">>,
                Pos(1, 2), Pos(1, 6))
\* a match without source lines whose rule carries a custom severity
F4 == RuleMatch("r2", "b.py", "odd", "CRITICAL", <<>>, Pos(9, 1), Pos(9, 1))

\* one completed engine run, as main() hands it to handle_semgrep_core_output;
\* rule_matches_by_rule is the dict in insertion order: <<rule, matches>> pairs
EngineRun(rule_matches_by_rule, debug_steps_by_rule, stats_line, all_targets, profiler, filtered_rules, match_time_matrix) ==
    [rule_matches_by_rule |-> rule_matches_by_rule,
     debug_steps_by_rule |-> debug_steps_by_rule,
     stats_line |-> stats_line,
     all_targets |-> all_targets,
     profiler |-> profiler,
     filtered_rules |-> filtered_rules,
     match_time_matrix |-> match_time_matrix]

EngineRuns ==
    { EngineRun(<<>>, <<>>, "ran 1 rules on 1 files: 0 findings",
                {"a.py"}, "profiler0", <<"r1">>, {}),
      EngineRun(<< <<"r2", <<F2>>>>, <<"python.r1", <<F3>>>>, <<"r1", <<F1>>>> >>,
                << <<"r2", "steps1">> >>,
                "ran 3 rules on 2 files: 3 findings",
                {"a.py", "b.py"}, "profiler1", <<"python.r1", "r1", "r2">>,
                {<<"r2", "a.py", 2>>, <<"python.r1", "b.py", 3>>}),
      EngineRun(<< <<"r2", <<F4>>>> >>, << <<"r2", "steps2">> >>,
                "ran 1 rules on 1 files: 1 findings",
                {"b.py"}, "profiler2", <<"r2">>, {}) }

----------------------------------------------------------------------------
(* Sequence helpers *)

RECURSIVE Flatten(_)
\* [x for xs in seqs for x in xs]
Flatten(seqs) ==
    IF seqs = <<>> THEN <<>> ELSE Head(seqs) \o Flatten(Tail(seqs))

Range(seq) == {seq[i] : i \in 1..Len(seq)}

\* `e in list` / `e in set`
Contains(seq, e) == \E i \in 1..Len(seq) : seq[i] = e

\* number of occurrences of e in seq
Count(seq, e) == Cardinality({i \in 1..Len(seq) : seq[i] = e})

----------------------------------------------------------------------------
(* OutputHandler.__init__ *)

OutputHandler(output_settings) ==
    [settings |-> output_settings,
     stderr |-> <<>>,
     stdout |-> <<>>,
     rule_matches |-> <<>>,
     debug_steps_by_rule |-> <<>>,
     stats_line |-> "None",
     all_targets |-> {},
     profiler |-> "None",
     rules |-> {},
     semgrep_structured_errors |-> <<>>,
     error_set |-> {},
     has_output |-> FALSE,
     filtered_rules |-> <<>>,
     match_time_matrix |-> {},
     final_error |-> None]

\* logger.error / logger.info: one record appended to the logger's stream
Log(h, kind, what) == [h EXCEPT !.stderr = Append(@, <<kind, what>>)]

\* handle_semgrep_error without the `error not in self.error_set` test
handle_semgrep_error_always_appends(h, error) ==
    [h EXCEPT !.has_output = TRUE,
              !.semgrep_structured_errors = Append(@, error),
              !.error_set = @ \cup {error}]

\* handle_semgrep_error testing error_set without ever adding to it
handle_semgrep_error_forgets_set(h, error) ==
    LET h1 == [h EXCEPT !.has_output = TRUE] IN
    IF error \notin h1.error_set
    THEN LET h2 == [h1 EXCEPT !.semgrep_structured_errors = Append(@, error)]
         IN IF h2.settings.output_format = "TEXT"
               /\ (error.level # "WARN" \/ h2.settings.verbose_errors)
            THEN Log(h2, "error", error)
            ELSE h2
    ELSE h1

\* handle_semgrep_error logging the error whether or not it is already accumulated
handle_semgrep_error_logs_duplicates(h, error) ==
    LET h1 == [h EXCEPT !.has_output = TRUE]
        h2 == IF error \notin h1.error_set
              THEN [h1 EXCEPT !.semgrep_structured_errors = Append(@, error),
                              !.error_set = @ \cup {error}]
              ELSE h1
    IN IF h2.settings.output_format = "TEXT"
          /\ (error.level # "WARN" \/ h2.settings.verbose_errors)
       THEN Log(h2, "error", error)
       ELSE h2

(* OutputHandler.handle_semgrep_error *)
handle_semgrep_error(h, error) ==
    LET h1 == [h EXCEPT !.has_output = TRUE] IN
    IF error \notin h1.error_set
    THEN LET h2 == [h1 EXCEPT
                      !.semgrep_structured_errors = Append(@, error),
                      !.error_set = @ \cup {error}]
         IN IF h2.settings.output_format = "TEXT"
               /\ (error.level # "WARN" \/ h2.settings.verbose_errors)
            THEN Log(h2, "error", error)
            ELSE h2
    ELSE h1

----------------------------------------------------------------------------
(* Ordering of the strings of the model, as Python compares them *)

StrRank(str) ==
    CASE str = "" -> 0
      [] str = "a.py" -> 1
      [] str = "b.py" -> 2
      [] str = "python.r1" -> 3
      [] str = "r1" -> 4
      [] str = "r2" -> 5
      [] str = "r3" -> 6
      [] str = "r4" -> 7
      [] str = "r5" -> 8
      [] str = "r6" -> 9
      [] OTHER -> 10

\* sorted(seq, key=...) / list.sort(): a stable sort; keys[i] is the key of seq[i].
\* rank[i] is the place of seq[i] in the result: after every item with a smaller
\* key and after every earlier item with an equal key
SortBy(seq, keys) ==
    LET Rank(k) == [i \in 1..Len(seq) |->
                      Cardinality({j \in 1..Len(seq) :
                                      \/ k[j] < k[i]
                                      \/ k[j] = k[i] /\ j < i}) + 1]
        Placed(rank) == [p \in 1..Len(seq) |->
                           seq[CHOOSE i \in 1..Len(seq) : rank[i] = p]]
    IN CHOOSE sorted \in {Placed(rank) : rank \in {Rank(k) : k \in {keys}}} : TRUE

----------------------------------------------------------------------------
(* OutputHandler.handle_semgrep_timeout_errors: errors is the defaultdict *)
(* path -> rule ids, as <<path, rule ids>> pairs in insertion order       *)

TimeoutThresholdHintLimit == 5

RECURSIVE TimeoutWarnings(_, _, _)
TimeoutWarnings(h, errors, i) ==
    IF i > Len(errors) THEN h
    ELSE LET path == errors[i][1]
             num_errs == Len(errors[i][2])
             rule_ids == SortBy(errors[i][2],
                                [k \in 1..Len(errors[i][2]) |-> StrRank(errors[i][2][k])])
             error_msg == [num_errs |-> num_errs, path |-> path,
                           rules |-> rule_ids,
                           stopped |-> num_errs = h.settings.timeout_threshold]
         IN TimeoutWarnings(Log(h, "timeout_warning", error_msg), errors, i + 1)

handle_semgrep_timeout_errors(h, errors) ==
    LET h1 == [h EXCEPT !.has_output = TRUE]
        h2 == TimeoutWarnings(h1, errors, 1)
        print_threshold_hint ==
            \E i \in 1..Len(errors) :
                /\ Len(errors[i][2]) > TimeoutThresholdHintLimit
                /\ h.settings.timeout_threshold = 0
    IN IF print_threshold_hint THEN Log(h2, "threshold_hint", "") ELSE h2

\* timeout_errors[err.path].append(err.rule_id) on the defaultdict
DictAppend(dict, key, value) ==
    IF \E i \in 1..Len(dict) : dict[i][1] = key
    THEN [i \in 1..Len(dict) |->
            IF dict[i][1] = key THEN <<key, Append(dict[i][2], value)>> ELSE dict[i]]
    ELSE Append(dict, <<key, <<value>>>>)

(* OutputHandler.handle_semgrep_errors *)
RECURSIVE HandleErrorsLoop(_, _, _, _)
\* the for loop: returns the handler and the timeout_errors dict after it
HandleErrorsLoop(h, timeout_errors, errors, i) ==
    IF i > Len(errors) THEN [h |-> h, timeout_errors |-> timeout_errors]
    ELSE LET err == errors[i] IN
         IF IsMatchTimeoutError(err) /\ err \notin h.error_set
         THEN HandleErrorsLoop(
                  [h EXCEPT !.semgrep_structured_errors = Append(@, err),
                            !.error_set = @ \cup {err}],
                  DictAppend(timeout_errors, err.path, err.rule_id),
                  errors, i + 1)
         ELSE HandleErrorsLoop(handle_semgrep_error(h, err), timeout_errors,
                               errors, i + 1)

\* handle_semgrep_errors marking the handler as having output on every call
handle_semgrep_errors_marks_output(h, errors) ==
    LET after == HandleErrorsLoop(h, <<>>, errors, 1) IN
    IF h.settings.output_format = "TEXT" /\ after.timeout_errors # <<>>
    THEN handle_semgrep_timeout_errors(after.h, after.timeout_errors)
    ELSE [after.h EXCEPT !.has_output = TRUE]

\* handle_semgrep_errors reporting the timeouts whatever the output format is
handle_semgrep_errors_warns_in_any_format(h, errors) ==
    LET after == HandleErrorsLoop(h, <<>>, errors, 1) IN
    IF after.timeout_errors # <<>>
    THEN handle_semgrep_timeout_errors(after.h, after.timeout_errors)
    ELSE after.h

handle_semgrep_errors(h, errors) ==
    LET after == HandleErrorsLoop(h, <<>>, errors, 1) IN
    IF after.timeout_errors # <<>> /\ h.settings.output_format = "TEXT"
    THEN handle_semgrep_timeout_errors(after.h, after.timeout_errors)
    ELSE after.h

----------------------------------------------------------------------------
(* OutputHandler.handle_semgrep_core_output *)

\* dict.update(other) on <<key, value>> pairs: overwrite in place, else append
RECURSIVE DictUpdate(_, _)
DictUpdate(dict, other) ==
    IF other = <<>> THEN dict
    ELSE LET key == Head(other)[1]
             val == Head(other)[2]
             upd == IF \E i \in 1..Len(dict) : dict[i][1] = key
                    THEN [i \in 1..Len(dict) |->
                            IF dict[i][1] = key THEN <<key, val>> ELSE dict[i]]
                    ELSE Append(dict, <<key, val>>)
         IN DictUpdate(upd, Tail(other))

\* handle_semgrep_core_output assigning the run's matches instead of appending them
handle_semgrep_core_output_replaces_matches(h, run) ==
    [h EXCEPT
       !.has_output = TRUE,
       !.rules = @ \cup {run.rule_matches_by_rule[i][1] :
                           i \in 1..Len(run.rule_matches_by_rule)},
       !.rule_matches = Flatten([i \in 1..Len(run.rule_matches_by_rule) |->
                                   run.rule_matches_by_rule[i][2]]),
       !.profiler = run.profiler,
       !.all_targets = run.all_targets,
       !.stats_line = run.stats_line,
       !.debug_steps_by_rule = DictUpdate(@, run.debug_steps_by_rule),
       !.filtered_rules = run.filtered_rules,
       !.match_time_matrix = run.match_time_matrix]

handle_semgrep_core_output(h, run) ==
    [h EXCEPT
       !.has_output = TRUE,
       !.rules = @ \cup {run.rule_matches_by_rule[i][1] :
                           i \in 1..Len(run.rule_matches_by_rule)},
       !.rule_matches = @ \o Flatten([i \in 1..Len(run.rule_matches_by_rule) |->
                                        run.rule_matches_by_rule[i][2]]),
       !.profiler = run.profiler,
       !.all_targets = run.all_targets,
       !.stats_line = run.stats_line,
       !.debug_steps_by_rule = DictUpdate(@, run.debug_steps_by_rule),
       !.filtered_rules = run.filtered_rules,
       !.match_time_matrix = run.match_time_matrix]

\* handle_unhandled_exception keeping the final error recorded first
handle_unhandled_exception_keeps_first(h, ex) ==
    LET h1 == IF IsSemgrepError(ex) THEN handle_semgrep_error(h, ex) ELSE h
    IN IF h1.final_error # None THEN h1 ELSE [h1 EXCEPT !.final_error = ex]

(* OutputHandler.handle_unhandled_exception *)
handle_unhandled_exception(h, ex) ==
    LET h1 == IF IsSemgrepError(ex) THEN handle_semgrep_error(h, ex) ELSE h
    IN [h1 EXCEPT !.final_error = ex]

----------------------------------------------------------------------------
(* Line Renderer and Format Renderers.  A rendered report is the sequence  *)
(* of its lines (text, emacs, vim) or the document that is serialized      *)
(* (json, sarif, junit-xml).                                               *)

CLI_RULE_ID == "-"

\* str.lower() on the severities of the model
Lower(severity) ==
    CASE severity = "ERROR" -> "error"
      [] severity = "WARNING" -> "warning"
      [] severity = "INFO" -> "info"
      [] severity = "CRITICAL" -> "critical"
      [] OTHER -> severity

\* check_id.split(".")[-1]
LastComponent(check_id) ==
    CASE check_id = "python.r1" -> "r1"
      [] OTHER -> check_id

\* key=lambda r: (r.path, r.id)
PathIdKey(r) == StrRank(r.path) * 100 + StrRank(r.id)

\* sorted(rule_matches, key=lambda r: (r.path, r.id))
SortByPathId(rule_matches) ==
    SortBy(rule_matches, [i \in 1..Len(rule_matches) |-> PathIdKey(rule_matches[i])])

\* finding_to_line reporting the lines it shows instead of the lines it hides
finding_to_line_reports_shown(rule_match, color_output, per_finding_max_lines_limit, show_separator) ==
    LET all == rule_match.lines
        keep == IF per_finding_max_lines_limit # 0
                   /\ per_finding_max_lines_limit < Len(all)
                THEN per_finding_max_lines_limit ELSE Len(all)
        body == [i \in 1..keep |->
                   <<"line", rule_match.start.line + (i - 1), all[i], color_output>>]
    IN IF per_finding_max_lines_limit # 1
       THEN IF keep < Len(all) THEN Append(body, <<"trimmed", keep>>)
            ELSE IF show_separator THEN Append(body, <<"break">>)
            ELSE body
       ELSE body

\* finding_to_line deciding on the separator before it looks at the truncation
finding_to_line_separates_first(rule_match, color_output, per_finding_max_lines_limit, show_separator) ==
    LET all == rule_match.lines
        trimmed == IF per_finding_max_lines_limit # 0
                   THEN Len(all) - per_finding_max_lines_limit ELSE 0
        keep == IF per_finding_max_lines_limit # 0
                   /\ per_finding_max_lines_limit < Len(all)
                THEN per_finding_max_lines_limit ELSE Len(all)
        body == [i \in 1..keep |->
                   <<"line", rule_match.start.line + (i - 1), all[i], color_output>>]
    IN IF per_finding_max_lines_limit # 1
       THEN IF show_separator THEN Append(body, <<"break">>)
            ELSE IF trimmed > 0 THEN Append(body, <<"trimmed", trimmed>>)
            ELSE body
       ELSE body

(* finding_to_line *)
finding_to_line(rule_match, color_output, per_finding_max_lines_limit, show_separator) ==
    IF rule_match.path = "" THEN <<>>
    ELSE LET all == rule_match.lines
             trimmed == IF per_finding_max_lines_limit # 0
                        THEN Len(all) - per_finding_max_lines_limit ELSE 0
             keep == IF per_finding_max_lines_limit # 0
                        /\ per_finding_max_lines_limit < Len(all)
                     THEN per_finding_max_lines_limit ELSE Len(all)
             body == [i \in 1..keep |->
                        <<"line", rule_match.start.line + (i - 1), all[i], color_output>>]
         IN IF per_finding_max_lines_limit # 1
            THEN IF trimmed > 0 THEN Append(body, <<"trimmed", trimmed>>)
                 ELSE IF show_separator THEN Append(body, <<"break">>)
                 ELSE body
            ELSE body

(* build_normal_output: the lines yielded by the loop's iteration rule_index; *)
(* last_file and last_message are what the previous iteration left (153-154) *)
NormalOutputIteration(sorted_rule_matches, rule_index, color_output, per_finding_max_lines_limit) ==
    LET rule_match == sorted_rule_matches[rule_index]
        current_file == rule_match.path
        last_file == IF rule_index = 1 THEN "None"
                     ELSE sorted_rule_matches[rule_index - 1].path
        last_message == IF rule_index = 1 THEN "None"
                        ELSE sorted_rule_matches[rule_index - 1].message
        newfile == last_file = "None" \/ last_file # current_file
        file_header ==
            IF newfile
            THEN (IF last_file # "None" THEN << <<"blank">> >> ELSE <<>>)
                 \o << <<"path", current_file, color_output>> >>
            ELSE <<>>
        last_message1 == IF newfile THEN "None" ELSE last_message
        rule_header ==
            IF rule_match.id # "" /\ rule_match.id # CLI_RULE_ID
               /\ (last_message1 = "None" \/ last_message1 # rule_match.message)
            THEN << <<"rule", Lower(rule_match.severity), rule_match.id,
                      rule_match.message, color_output>> >>
            ELSE <<>>
        is_same_file ==
            IF rule_index # Len(sorted_rule_matches)
            THEN sorted_rule_matches[rule_index + 1].path = rule_match.path
            ELSE FALSE
    IN file_header \o rule_header
       \o finding_to_line(rule_match, color_output,
                          per_finding_max_lines_limit, is_same_file)

build_normal_output(rule_matches, color_output, per_finding_max_lines_limit) ==
    LET Lines(sorted_rule_matches) ==
            Flatten([rule_index \in 1..Len(sorted_rule_matches) |->
                        NormalOutputIteration(sorted_rule_matches, rule_index,
                                              color_output, per_finding_max_lines_limit)])
    IN CHOOSE lines \in {Lines(sorted_rule_matches) :
                            sorted_rule_matches \in {SortByPathId(rule_matches)}} : TRUE

(* _build_time_json *)
build_time_json(rules, targets, match_time_matrix) ==
    [rules |-> rules,
     targets |-> { [path |-> t,
                    match_times |->
                        [i \in 1..Len(rules) |->
                            IF \E m \in match_time_matrix : m[1] = rules[i] /\ m[2] = t
                            THEN (CHOOSE m \in match_time_matrix :
                                      m[1] = rules[i] /\ m[2] = t)[3]
                            ELSE 0]] : t \in targets }]

\* build_output_json losing the last match
build_output_json_drops_last(rule_matches, semgrep_structured_errors, all_targets, show_json_stats, report_time, filtered_rules, match_time_matrix, profiler, debug_steps_by_rule) ==
    [results |-> [i \in 1..(Len(rule_matches) - 1) |-> <<"to_json", rule_matches[i]>>],
     debug |-> debug_steps_by_rule,
     errors |-> [i \in 1..Len(semgrep_structured_errors) |->
                    <<"to_dict", semgrep_structured_errors[i]>>],
     stats |-> <<>>,
     time |-> <<>>]

(* build_output_json *)
build_output_json(rule_matches, semgrep_structured_errors, all_targets, show_json_stats, report_time, filtered_rules, match_time_matrix, profiler, debug_steps_by_rule) ==
    [results |-> [i \in 1..Len(rule_matches) |-> <<"to_json", rule_matches[i]>>],
     debug |-> debug_steps_by_rule,
     errors |-> [i \in 1..Len(semgrep_structured_errors) |->
                    <<"to_dict", semgrep_structured_errors[i]>>],
     stats |-> IF show_json_stats
               THEN <<"stats", all_targets, profiler>> ELSE <<>>,
     time |-> IF report_time
              THEN <<build_time_json(filtered_rules, all_targets, match_time_matrix)>>
              ELSE <<>>]

(* build_junit_xml_output *)
build_junit_xml_output(rule_matches, rules) ==
    [suite |-> "semgrep results",
     test_cases |-> [i \in 1..Len(rule_matches) |-> <<"to_junit_xml", rule_matches[i]>>]]

\* Level.name.lower() of the error's level
LevelName(level) ==
    CASE level = "ERROR" -> "error"
      [] level = "WARN" -> "warn"

\* SemgrepError.to_dict() (semgrep/error.py): the type, the level and the message
\* keys the error has; an error with spans carries short_msg and long_msg in
\* `fields`, any other error its message
to_dict(error) ==
    [type |-> error.cls,
     level |-> LevelName(error.level),
     fields |-> IF "fields" \in DOMAIN error THEN error.fields
                ELSE [key \in {"message"} |-> error.msg]]

\* _sarif_notification_from_error trying long_msg before message
sarif_notification_from_error_prefers_long(error) ==
    LET Notification(error_dict) ==
            LET Get(key, default) ==
                    IF key \in DOMAIN error_dict.fields
                    THEN error_dict.fields[key] ELSE default
                message0 == Get("long_msg", "None")
                message1 == IF message0 = "None" THEN Get("message", "None")
                            ELSE message0
                message2 == IF message1 = "None" THEN Get("short_msg", "")
                            ELSE message1
            IN [descriptor |-> error_dict.type,
                message |-> message2,
                level |-> CASE error_dict.level = "error" -> "error"
                            [] error_dict.level = "warn" -> "warning"]
    IN CHOOSE n \in {Notification(error_dict) : error_dict \in {to_dict(error)}} : TRUE

(* _sarif_notification_from_error: Get is error_dict.get, "None" is Python's None *)
sarif_notification_from_error(error) ==
    LET Notification(error_dict) ==
            LET Get(key, default) ==
                    IF key \in DOMAIN error_dict.fields
                    THEN error_dict.fields[key] ELSE default
                message0 == Get("message", "None")
                message1 == IF message0 = "None" THEN Get("long_msg", "None")
                            ELSE message0
                message2 == IF message1 = "None" THEN Get("short_msg", "")
                            ELSE message1
            IN [descriptor |-> error_dict.type,
                message |-> message2,
                level |-> CASE error_dict.level = "error" -> "error"
                            [] error_dict.level = "warn" -> "warning"]
    IN CHOOSE n \in {Notification(error_dict) : error_dict \in {to_dict(error)}} : TRUE

(* build_sarif_output *)
build_sarif_output(rule_matches, rules, semgrep_structured_errors) ==
    [version |-> "2.1.0",
     rules |-> rules,
     results |-> [i \in 1..Len(rule_matches) |-> <<"to_sarif", rule_matches[i]>>],
     toolExecutionNotifications |->
         [i \in 1..Len(semgrep_structured_errors) |->
             sarif_notification_from_error(semgrep_structured_errors[i])]]

(* iter_emacs_output / build_emacs_output: defined when every match has a line *)
build_emacs_output(rule_matches, rules) ==
    LET Lines(sorted_rule_matches) ==
            [i \in 1..Len(sorted_rule_matches) |->
                LET rule_match == sorted_rule_matches[i]
                    info == IF rule_match.id # "" /\ rule_match.id # CLI_RULE_ID
                            THEN LastComponent(rule_match.id) ELSE ""
                IN <<rule_match.path, rule_match.start.line, rule_match.start.col,
                     Lower(rule_match.severity), info, rule_match.lines[1]>>]
    IN CHOOSE lines \in {Lines(sorted_rule_matches) :
                            sorted_rule_matches \in {SortByPathId(rule_matches)}} : TRUE

VimSeverity == [INFO |-> "I", WARNING |-> "W", ERROR |-> "E"]

(* build_vim_output: defined when every severity is a key of the table *)
build_vim_output(rule_matches, rules) ==
    [i \in 1..Len(rule_matches) |->
        <<rule_matches[i].path, rule_matches[i].start.line, rule_matches[i].start.col,
          VimSeverity[rule_matches[i].severity], rule_matches[i].id,
          rule_matches[i].message>>]

\* the exception the active renderer raises on the accumulated matches, or None:
\* rule_match.lines[0] (output.py:335) and severity[rule_match.severity] (output.py:359)
RenderError(h) ==
    CASE h.settings.output_format = "EMACS"
           /\ \E i \in 1..Len(h.rule_matches) : h.rule_matches[i].lines = <<>>
           -> Exc("IndexError", "", "", "", "list index out of range", "")
      [] h.settings.output_format = "VIM"
           /\ \E i \in 1..Len(h.rule_matches) :
                 h.rule_matches[i].severity \notin DOMAIN VimSeverity
           -> Exc("KeyError", "", "", "", "severity", "")
      [] OTHER -> None

(* OutputHandler.build_output *)
build_output(h, color_output, per_finding_max_lines_limit) ==
    LET output_format == h.settings.output_format
        debug_steps == IF output_format = "JSON_DEBUG"
                       THEN h.debug_steps_by_rule ELSE <<>>
    IN [format |-> output_format,
        body |->
          CASE is_json(output_format) ->
                 build_output_json(h.rule_matches, h.semgrep_structured_errors,
                                   h.all_targets, h.settings.json_stats,
                                   h.settings.json_time, h.filtered_rules,
                                   h.match_time_matrix, h.profiler, debug_steps)
            [] output_format = "JUNIT_XML" ->
                 build_junit_xml_output(h.rule_matches, h.rules)
            [] output_format = "SARIF" ->
                 build_sarif_output(h.rule_matches, h.rules, h.semgrep_structured_errors)
            [] output_format = "EMACS" -> build_emacs_output(h.rule_matches, h.rules)
            [] output_format = "VIM" -> build_vim_output(h.rule_matches, h.rules)
            [] OTHER ->
                 build_normal_output(h.rule_matches, color_output,
                                     per_finding_max_lines_limit)]

\* `if output:` -- the rendered string is empty: "\n".join of no lines
OutputIsEmpty(output) ==
    output.format \in {"TEXT", "EMACS", "VIM"} /\ output.body = <<>>

----------------------------------------------------------------------------
(* Delivery Sink: OutputHandler.save_output / post_output.  The outcome of *)
(* the POST or of the file write is the environment's: save_result.        *)

PostResults == {"ok", "Timeout", "ConnectionError"}
WriteResults == {"ok", "OSError"}

\* config_resolver.get_base_path().joinpath(destination)
BasePathJoin(destination) == "<base>/" \o destination

\* post_output letting requests.exceptions.Timeout through
post_output_reraises_timeout(output_url, output, save_result) ==
    IF save_result = "ok"
    THEN [written |-> << <<output_url, "post", output>> >>, raised |-> None]
    ELSE [written |-> <<>>, raised |-> Exc(save_result, "", "", "", "", "")]

(* OutputHandler.post_output *)
post_output(output_url, output, save_result) ==
    CASE save_result = "ok" ->
           [written |-> << <<output_url, "post", output>> >>, raised |-> None]
      [] save_result = "Timeout" ->
           [written |-> <<>>,
            raised |-> SemgrepError("posting output to " \o output_url \o " timed out",
                                    "FATAL_EXIT_CODE")]
      [] OTHER ->
           [written |-> <<>>, raised |-> Exc(save_result, "", "", "", "", "")]

(* OutputHandler.save_output *)
save_output(destination, output, save_result) ==
    IF is_url(destination)
    THEN post_output(destination.name, output, save_result)
    ELSE LET save_path == IF destination.absolute THEN destination.name
                          ELSE BasePathJoin(destination.name)
         IN IF save_result = "ok"
            THEN [written |-> << <<save_path, "file", output>> >>, raised |-> None]
            ELSE [written |-> <<>>, raised |-> Exc(save_result, "", "", "", "", "")]

\* the outcomes the environment can produce for a destination
SaveResults(destination) ==
    IF is_url(destination) THEN PostResults ELSE WriteResults

PrintResults == {"ok", "UnicodeEncodeError"}

EncodingException ==
    Exc("Exception", "", "", "",
        "Received output encoding error, please set PYTHONIOENCODING=utf-8", "")

----------------------------------------------------------------------------
(* OutputHandler.final_raise: the exception raised (or None) and the log *)

\* final_raise raising a WARN-level error whatever settings.strict says
final_raise_ignores_strict(h, ex, error_stats) ==
    [h |-> h, raised |-> ex]

final_raise(h, ex, error_stats) ==
    IF ex = None THEN [h |-> h, raised |-> None]
    ELSE IF IsSemgrepError(ex)
         THEN IF ex.level = "ERROR" THEN [h |-> h, raised |-> ex]
              ELSE IF h.settings.strict THEN [h |-> h, raised |-> ex]
                   ELSE [h |-> Log(h, "hint", error_stats), raised |-> None]
         ELSE [h |-> h, raised |-> ex]

\* the locals of a close() that raised before it reached output.py:556
Unresolved == [final_error |-> None, error_stats |-> <<"unreached">>]

\* the resolution of close() with the accumulated errors tested before the findings
ResolveFinalError_errors_first(h) ==
    IF h.final_error # None
    THEN [final_error |-> h.final_error, error_stats |-> <<>>]
    ELSE IF h.semgrep_structured_errors # <<>>
         THEN [final_error |->
                   h.semgrep_structured_errors[Len(h.semgrep_structured_errors)],
               error_stats |-> <<Len(h.semgrep_structured_errors),
                                 "files could not be analyzed">>]
         ELSE IF h.rule_matches # <<>> /\ h.settings.error_on_findings
              THEN [final_error |-> SemgrepError("", "FINDINGS_EXIT_CODE"),
                    error_stats |-> <<>>]
              ELSE [final_error |-> None, error_stats |-> <<>>]

\* the resolution of close() with the worst accumulated error as the cause: the
\* first ERROR-level one if there is one, else the last
ResolveFinalError_worst_error(h) ==
    IF h.final_error # None
    THEN [final_error |-> h.final_error, error_stats |-> <<>>]
    ELSE IF h.rule_matches # <<>> /\ h.settings.error_on_findings
         THEN [final_error |-> SemgrepError("", "FINDINGS_EXIT_CODE"),
               error_stats |-> <<>>]
         ELSE IF h.semgrep_structured_errors # <<>>
              THEN [final_error |->
                        IF \E i \in 1..Len(h.semgrep_structured_errors) :
                              h.semgrep_structured_errors[i].level = "ERROR"
                        THEN h.semgrep_structured_errors[
                                 CHOOSE i \in 1..Len(h.semgrep_structured_errors) :
                                     h.semgrep_structured_errors[i].level = "ERROR"]
                        ELSE h.semgrep_structured_errors[Len(h.semgrep_structured_errors)],
                    error_stats |-> <<Len(h.semgrep_structured_errors),
                                      "files could not be analyzed">>]
              ELSE [final_error |-> None, error_stats |-> <<>>]

\* close()'s locals final_error and error_stats (output.py:556-570)
ResolveFinalError(h) ==
    IF h.final_error # None
    THEN [final_error |-> h.final_error, error_stats |-> <<>>]
    ELSE IF h.rule_matches # <<>> /\ h.settings.error_on_findings
         THEN [final_error |-> SemgrepError("", "FINDINGS_EXIT_CODE"),
               error_stats |-> <<>>]
         ELSE IF h.semgrep_structured_errors # <<>>
              THEN [final_error |->
                        h.semgrep_structured_errors[Len(h.semgrep_structured_errors)],
                    error_stats |-> <<Len(h.semgrep_structured_errors),
                                      "files could not be analyzed">>]
              ELSE [final_error |-> None, error_stats |-> <<>>]

\* the `if self.has_output:` block of close() (output.py:538-554); `delivery`
\* names the failure the environment produced, if the block met one
RenderAndDeliver(h, isatty, print_result, save_result) ==
    IF ~h.has_output
    THEN [h |-> h, written |-> <<>>, rendered |-> 0, delivery |-> "skipped",
          raised |-> None]
    ELSE IF RenderError(h) # None
    THEN [h |-> h, written |-> <<>>, rendered |-> 1, delivery |-> "skipped",
          raised |-> RenderError(h)]
    ELSE
      LET Deliver(output) ==
         IF ~OutputIsEmpty(output) /\ print_result # "ok"
         THEN [h |-> h, written |-> <<>>, rendered |-> 1,
               delivery |-> "print:" \o print_result, raised |-> EncodingException]
         ELSE
           LET h1 == IF ~OutputIsEmpty(output)
                     THEN [h EXCEPT !.stdout = Append(@, output)] ELSE h
               h2 == IF h1.stats_line # "None"
                     THEN Log(h1, "info", h1.stats_line) ELSE h1
           IN IF h2.settings.output_destination # NoDestination
              THEN LET sv == save_output(h2.settings.output_destination, output,
                                         save_result)
                   IN [h |-> h2, written |-> sv.written, rendered |-> 1,
                       delivery |-> IF is_url(h2.settings.output_destination)
                                    THEN "post:" \o save_result
                                    ELSE "write:" \o save_result,
                       raised |-> sv.raised]
              ELSE [h |-> h2, written |-> <<>>, rendered |-> 1,
                    delivery |-> IF OutputIsEmpty(output) THEN "skipped" ELSE "print:ok",
                    raised |-> None]
      IN CHOOSE d \in {Deliver(output) : output \in
                 {build_output(h, h.settings.output_destination = NoDestination /\ isatty,
                               h.settings.output_per_finding_max_lines_limit)}} : TRUE

\* close() passing a failed delivery to final_raise instead of raising it
close_defers_delivery_failure(h, isatty, print_result, save_result) ==
    LET Finish(d) ==
            LET r == ResolveFinalError(d.h)
                cause == IF r.final_error # None THEN r.final_error ELSE d.raised
                f == final_raise(d.h, cause, r.error_stats)
            IN [h |-> f.h, written |-> d.written, rendered |-> d.rendered,
                delivery |-> d.delivery, raised |-> f.raised,
                resolved |-> IF d.raised # None THEN Unresolved ELSE r]
    IN CHOOSE c \in {Finish(d) : d \in
               {RenderAndDeliver(h, isatty, print_result, save_result)}} : TRUE

\* close() past its `if self.has_output:` block, whose outcome is d: an exception
\* of the block leaves close(); otherwise the cause is resolved and final_raise called
FinishClose(d) ==
    IF d.raised # None
    THEN [h |-> d.h, written |-> d.written, rendered |-> d.rendered,
          delivery |-> d.delivery, raised |-> d.raised, resolved |-> Unresolved]
    ELSE LET r == ResolveFinalError(d.h)
             f == final_raise(d.h, r.final_error, r.error_stats)
         IN [h |-> f.h, written |-> d.written, rendered |-> d.rendered,
             delivery |-> d.delivery, raised |-> f.raised, resolved |-> r]

\* close() over renderers that sort the match list in place (list.sort for sorted)
close_sorts_in_place(h, isatty, print_result, save_result) ==
    CHOOSE c \in {FinishClose(d) : d \in
            {RenderAndDeliver([h EXCEPT !.rule_matches = SortByPathId(@)],
                              isatty, print_result, save_result)}} : TRUE

\* close() over renderers that drain the match list they iterate
close_consumes_matches(h, isatty, print_result, save_result) ==
    CHOOSE c \in {FinishClose([d EXCEPT !.h.rule_matches = <<>>]) : d \in
            {RenderAndDeliver(h, isatty, print_result, save_result)}} : TRUE

(* OutputHandler.close *)
close(h, isatty, print_result, save_result) ==
    CHOOSE c \in {FinishClose(d) : d \in
            {RenderAndDeliver(h, isatty, print_result, save_result)}} : TRUE

----------------------------------------------------------------------------
(* Suppression Filter: rule_match_nosem (semgrep_main.py:83-129).  The two *)
(* regular expressions are those of semgrep/constants.py; they and the     *)
(* string methods are tabulated on the source lines of the model.          *)

\* NOSEM_INLINE_RE.search(line): whether the line carries the annotation, and
\* the "ids" group of the match (has_ids is FALSE when the group is None)
NOSEM_INLINE_RE_search(line) ==
    CASE line = "x == x  # nosem" -> [found |-> TRUE, has_ids |-> FALSE, ids |-> ""]
      [] line = "x == x  # nosem: r1" -> [found |-> TRUE, has_ids |-> TRUE, ids |-> "r1"]
      [] line = "x == x  # nosem: r2" -> [found |-> TRUE, has_ids |-> TRUE, ids |-> "r2"]
      [] line = "x == x  # nosem: r1, r2" ->
             [found |-> TRUE, has_ids |-> TRUE, ids |-> "r1, r2"]
      [] line = "x == x  # nosem: r2, r3" ->
             [found |-> TRUE, has_ids |-> TRUE, ids |-> "r2, r3"]
      [] line = "x == x  # nosem: 'r1'" ->
             [found |-> TRUE, has_ids |-> TRUE, ids |-> "'r1'"]
      [] line = "x == x  /* nosem: r1, */" ->
             [found |-> TRUE, has_ids |-> TRUE, ids |-> "r1, */"]
      [] line = "x == x  <!-- nosem: -->" ->
             [found |-> TRUE, has_ids |-> TRUE, ids |-> "-->"]
      [] OTHER -> [found |-> FALSE, has_ids |-> FALSE, ids |-> ""]

\* COMMA_SEPARATED_LIST_RE.split(ids_str)
COMMA_SEPARATED_LIST_RE_split(ids_str) ==
    CASE ids_str = "r1, r2" -> <<"r1", " r2">>
      [] ids_str = "r2, r3" -> <<"r2", " r3">>
      [] ids_str = "r1, */" -> <<"r1", " */">>
      [] OTHER -> <<ids_str>>

\* str.strip()
Strip(str) ==
    CASE str = " r2" -> "r2"
      [] str = " r3" -> "r3"
      [] str = " */" -> "*/"
      [] OTHER -> str

\* str.strip("\"'")
StripQuotes(str) ==
    CASE str = "'r1'" -> "r1"
      [] OTHER -> str

\* sub(r"[\w\-\.]+", "", x): what is left of x without its identifier characters
SubIdChars(x) ==
    CASE x \in {"r1", "r2", "r3", "python.r1"} -> ""
      [] x = "-->" -> ">"
      [] OTHER -> x

\* the pattern_ids of rule_match_nosem (semgrep_main.py:106-115)
PatternIds(ids_str) ==
    LET tokens == COMMA_SEPARATED_LIST_RE_split(ids_str)
        stripped == {StripQuotes(Strip(tokens[i])) :
                        i \in {j \in 1..Len(tokens) : Strip(tokens[j]) # ""}}
    IN {x \in stripped : SubIdChars(x) = ""}

\* message of the error raised for a listed id that is not the match's rule id
NosemMismatchMessage(pattern_id, rule_id) ==
    "found 'nosem' comment with id '" \o pattern_id
        \o "', but no corresponding rule trying '" \o rule_id \o "'"

\* rule_match_nosem looking for the annotation on every line of the match
rule_match_nosem_any_line(rule_match, strict) ==
    {[returned |-> \E i \in 1..Len(rule_match.lines) :
                      NOSEM_INLINE_RE_search(rule_match.lines[i]).found,
      raised |-> None]}

\* rule_match_nosem without the strict test: a mismatch is only logged
rule_match_nosem_never_raises(rule_match, strict) ==
    IF rule_match.lines = <<>>
    THEN {[returned |-> FALSE, raised |-> None]}
    ELSE LET re_match == NOSEM_INLINE_RE_search(rule_match.lines[1]) IN
         {[returned |-> re_match.found
                        /\ (re_match.has_ids =>
                               rule_match.id \in PatternIds(re_match.ids)),
           raised |-> None]}

\* rule_match_nosem with `result = rule_match.id == pattern_id` in the loop:
\* the identifier met last decides
rule_match_nosem_last_decides(rule_match, strict) ==
    IF rule_match.lines = <<>>
    THEN {[returned |-> FALSE, raised |-> None]}
    ELSE LET re_match == NOSEM_INLINE_RE_search(rule_match.lines[1]) IN
         IF ~re_match.found
         THEN {[returned |-> FALSE, raised |-> None]}
         ELSE IF ~re_match.has_ids
         THEN {[returned |-> TRUE, raised |-> None]}
         ELSE IF PatternIds(re_match.ids) = {}
         THEN {[returned |-> FALSE, raised |-> None]}
         ELSE {[returned |-> rule_match.id = p, raised |-> None] :
                  p \in PatternIds(re_match.ids)}

\* rule_match_nosem returning as soon as it meets the match's rule id
rule_match_nosem_match_wins(rule_match, strict) ==
    IF rule_match.lines = <<>>
    THEN {[returned |-> FALSE, raised |-> None]}
    ELSE LET re_match == NOSEM_INLINE_RE_search(rule_match.lines[1]) IN
         IF ~re_match.found
         THEN {[returned |-> FALSE, raised |-> None]}
         ELSE IF ~re_match.has_ids
         THEN {[returned |-> TRUE, raised |-> None]}
         ELSE LET pattern_ids == PatternIds(re_match.ids)
                  others == {p \in pattern_ids : p # rule_match.id}
              IN (IF rule_match.id \in pattern_ids
                  THEN {[returned |-> TRUE, raised |-> None]} ELSE {})
                 \cup
                 (IF strict /\ others # {}
                  THEN {[returned |-> FALSE,
                         raised |-> SemgrepError(
                                        NosemMismatchMessage(p, rule_match.id),
                                        "FATAL_EXIT_CODE")] : p \in others}
                  ELSE {[returned |-> rule_match.id \in pattern_ids, raised |-> None]})

(* rule_match_nosem: the set of its outcomes.  pattern_ids is a set, iterated *)
(* in an order the program does not fix: with strict set, the loop raises for *)
(* whichever id that differs from the rule id it meets first.                 *)
rule_match_nosem(rule_match, strict) ==
    IF rule_match.lines = <<>>
    THEN {[returned |-> FALSE, raised |-> None]}
    ELSE LET re_match == NOSEM_INLINE_RE_search(rule_match.lines[1]) IN
         IF ~re_match.found
         THEN {[returned |-> FALSE, raised |-> None]}
         ELSE IF ~re_match.has_ids
         THEN {[returned |-> TRUE, raised |-> None]}
         ELSE LET pattern_ids == PatternIds(re_match.ids)
                  others == {p \in pattern_ids : p # rule_match.id}
              IN IF strict /\ others # {}
                 THEN {[returned |-> FALSE,
                        raised |-> SemgrepError(
                                       NosemMismatchMessage(p, rule_match.id),
                                       "FATAL_EXIT_CODE")] : p \in others}
                 ELSE {[returned |-> rule_match.id \in pattern_ids, raised |-> None]}

----------------------------------------------------------------------------
(* main() from the engine's results on (semgrep_main.py:243-299): ingest    *)
(* the engine's errors, evaluate the Suppression Filter on every match,     *)
(* drop the ignored ones unless disable_nosem, ingest the rest.             *)

\* two annotated matches of rule r1: a bare annotation, and one naming r2
N1 == RuleMatch("r1", "a.py", "dangerous ==", "ERROR", <<"x == x  # nosem">>,
                Pos(3, 1), Pos(3, 5))
N2 == RuleMatch("r1", "a.py", "dangerous ==", "ERROR", <<"x == x  # nosem: r2">>,
                Pos(5, 1), Pos(5, 5))

\* what CoreRunner(...).invoke_semgrep returns, and the rules it was run with
CoreRun(rule_matches_by_rule, debug_steps_by_rule, semgrep_errors, all_targets, profiler, match_time_matrix, filtered_rules) ==
    [rule_matches_by_rule |-> rule_matches_by_rule,
     debug_steps_by_rule |-> debug_steps_by_rule,
     semgrep_errors |-> semgrep_errors,
     all_targets |-> all_targets,
     profiler |-> profiler,
     match_time_matrix |-> match_time_matrix,
     filtered_rules |-> filtered_rules]

CoreRuns ==
    { CoreRun(<< <<"r2", <<F4>>>> >>, << <<"r2", "steps2">> >>, errors,
              {"b.py"}, "profiler2", {}, <<"r2">>) : errors \in {<<>>, <<T1>>} }
    \cup
    { CoreRun(<< <<"r1", <<N1, N2>>>> >>, <<>>, errors,
              {"a.py"}, "profiler3", {}, <<"r1">>) : errors \in {<<>>, <<T1>>} }

\* str(n) of an f-string on the counts of the model
Str(n) ==
    CASE n = 0 -> "0" [] n = 1 -> "1" [] n = 2 -> "2" [] n = 3 -> "3"
      [] n = 4 -> "4" [] OTHER -> "many"

\* main() calling handle_semgrep_core_output with every match and raising the
\* filter's error afterwards
main_engine_results_filters_late(h, run, strict, disable_nosem) ==
    LET h1 == handle_semgrep_errors(h, run.semgrep_errors)
        all == Flatten([i \in 1..Len(run.rule_matches_by_rule) |->
                           run.rule_matches_by_rule[i][2]])
        h2 == handle_semgrep_core_output(h1,
                  EngineRun(run.rule_matches_by_rule, run.debug_steps_by_rule,
                            "ran", run.all_targets, run.profiler,
                            run.filtered_rules, run.match_time_matrix))
    IN {[h |-> h2, raised |-> o.raised] :
           o \in UNION {rule_match_nosem(all[i], strict) : i \in 1..Len(all)}}

\* main() evaluating the filter only when suppression is enabled
main_engine_results_skips_disabled_filter(h, run, strict, disable_nosem) ==
    LET h1 == handle_semgrep_errors(h, run.semgrep_errors)
        all == Flatten([i \in 1..Len(run.rule_matches_by_rule) |->
                           run.rule_matches_by_rule[i][2]])
        raising == {i \in 1..Len(all) :
                       /\ ~disable_nosem
                       /\ \E o \in rule_match_nosem(all[i], strict) : o.raised # None}
        is_ignored(rule_match) ==
            \E o \in rule_match_nosem(rule_match, strict) : o.returned
        Kept(rule_matches) ==
            SelectSeq(rule_matches, LAMBDA m : disable_nosem \/ ~is_ignored(m))
        rule_matches_by_rule ==
            [i \in 1..Len(run.rule_matches_by_rule) |->
                <<run.rule_matches_by_rule[i][1], Kept(run.rule_matches_by_rule[i][2])>>]
        num_findings == Len(Flatten([i \in 1..Len(rule_matches_by_rule) |->
                                        rule_matches_by_rule[i][2]]))
        stats_line == "ran " \o Str(Len(run.filtered_rules)) \o " rules on "
                      \o Str(Cardinality(run.all_targets)) \o " files: "
                      \o Str(num_findings) \o " findings"
    IN IF raising # {}
       THEN LET first == CHOOSE i \in raising : \A j \in raising : i <= j
            IN {[h |-> h1, raised |-> o.raised] :
                   o \in rule_match_nosem(all[first], strict)}
       ELSE {[h |-> handle_semgrep_core_output(h1,
                        EngineRun(rule_matches_by_rule, run.debug_steps_by_rule,
                                  stats_line, run.all_targets, run.profiler,
                                  run.filtered_rules, run.match_time_matrix)),
              raised |-> None]}

\* the outcomes of semgrep_main.py:270-299: the handler afterwards and the
\* exception main() raised there, if any
main_engine_results(h, run, strict, disable_nosem) ==
    LET h1 == handle_semgrep_errors(h, run.semgrep_errors)
        all == Flatten([i \in 1..Len(run.rule_matches_by_rule) |->
                           run.rule_matches_by_rule[i][2]])
        raising == {i \in 1..Len(all) :
                       \E o \in rule_match_nosem(all[i], strict) : o.raised # None}
        is_ignored(rule_match) ==
            \E o \in rule_match_nosem(rule_match, strict) : o.returned
        Kept(rule_matches) ==
            SelectSeq(rule_matches, LAMBDA m : disable_nosem \/ ~is_ignored(m))
        rule_matches_by_rule ==
            [i \in 1..Len(run.rule_matches_by_rule) |->
                <<run.rule_matches_by_rule[i][1], Kept(run.rule_matches_by_rule[i][2])>>]
        num_findings == Len(Flatten([i \in 1..Len(rule_matches_by_rule) |->
                                        rule_matches_by_rule[i][2]]))
        stats_line == "ran " \o Str(Len(run.filtered_rules)) \o " rules on "
                      \o Str(Cardinality(run.all_targets)) \o " files: "
                      \o Str(num_findings) \o " findings"
    IN IF raising # {}
       THEN LET first == CHOOSE i \in raising : \A j \in raising : i <= j
            IN {[h |-> h1, raised |-> o.raised] :
                   o \in rule_match_nosem(all[first], strict)}
       ELSE {[h |-> handle_semgrep_core_output(h1,
                        EngineRun(rule_matches_by_rule, run.debug_steps_by_rule,
                                  stats_line, run.all_targets, run.profiler,
                                  run.filtered_rules, run.match_time_matrix)),
              raised |-> None]}

----------------------------------------------------------------------------
(* The drivers.  managed_output (output.py:379-390) runs an arbitrary body *)
(* on the handler, records an exception of the body and closes the handler *)
(* in its finally clause.  invoke_semgrep (semgrep_main.py:132-161) runs   *)
(* main() on a handler with fixed settings and closes it afterwards.       *)

Init ==
    /\ scope \in {"managed_output", "invoke_semgrep"}
    /\ \E output_settings \in ManagedSettings \cup {InvokeSettings} :
          /\ scope = "invoke_semgrep" <=> output_settings = InvokeSettings
          /\ self = OutputHandler(output_settings)
    /\ pc = "body"
    /\ pending = None
    /\ ops = 0
    /\ close_calls = 0
    /\ late_calls = 0
    /\ saved = <<>>
    /\ rendered = 0
    /\ delivery = "none"
    /\ ingested = {}
    /\ repeated = FALSE
    /\ thrown = None
    /\ raised = None
    /\ resolved = Unresolved
    /\ escaped = <<>>
    /\ before = self
    /\ args = <<>>
    /\ result = <<>>

\* a handler call made by the scope body, handing over the errors `errors`
BodyCall(h, errors) ==
    /\ pc = "body"
    /\ ops < MaxOps
    /\ self' = h
    /\ ops' = ops + 1
    /\ late_calls' = late_calls + (IF close_calls > 0 THEN 1 ELSE 0)
    /\ ingested' = ingested \cup Range(errors)
    /\ repeated' = (repeated \/ Len(errors) > Cardinality(Range(errors) \ ingested))
    /\ UNCHANGED <<scope, pc, pending, close_calls, saved, rendered, delivery,
                   thrown, raised, resolved, escaped, before, args, result>>

HandleSemgrepErrors ==
    /\ pc = "body"
    /\ \E errors \in ErrorBatches :
          BodyCall(handle_semgrep_errors(self, errors), errors)

HandleSemgrepError ==
    /\ pc = "body"
    /\ \E error \in StructuredErrors :
          BodyCall(handle_semgrep_error(self, error), <<error>>)

HandleSemgrepCoreOutput ==
    /\ pc = "body"
    /\ \E run \in EngineRuns :
          BodyCall(handle_semgrep_core_output(self, run), <<>>)

\* a body that records a final error itself and keeps executing
HandleUnhandledException ==
    /\ scope = "managed_output"
    /\ \E ex \in {E1, X1} :
          BodyCall(handle_unhandled_exception(self, ex),
                   IF IsSemgrepError(ex) THEN <<ex>> ELSE <<>>)

\* where control goes when the body raises ex
RaiseTarget(sc, ex) ==
    IF sc = "managed_output"
    THEN (IF IsException(ex) THEN "except" ELSE "finally")
    ELSE "done"

\* the body (main() under invoke_semgrep) raises
BodyRaise ==
    /\ pc = "body"
    /\ \E ex \in BodyExceptions :
          /\ pending' = ex
          /\ thrown' = ex
          /\ pc' = RaiseTarget(scope, ex)
          /\ escaped' = IF RaiseTarget(scope, ex) = "done" THEN <<ex>> ELSE escaped
    /\ UNCHANGED <<scope, self, ops, close_calls, late_calls, saved, rendered,
                   delivery, ingested, repeated, raised, resolved, before, args,
                   result>>

\* main() receives the engine's results; it goes on, or raises the filter's error
MainEngineResults ==
    /\ pc = "body"
    /\ ops < MaxOps
    /\ \E run \in CoreRuns, strict \in BOOLEAN, disable_nosem \in BOOLEAN :
          \E o \in main_engine_results(self, run, strict, disable_nosem) :
             /\ self' = o.h
             /\ ingested' = ingested \cup Range(run.semgrep_errors)
             /\ repeated' = (repeated \/ Range(run.semgrep_errors) \cap ingested # {})
             /\ pending' = IF o.raised # None THEN o.raised ELSE pending
             /\ thrown' = IF o.raised # None THEN o.raised ELSE thrown
             /\ pc' = IF o.raised # None THEN RaiseTarget(scope, o.raised) ELSE pc
             /\ escaped' = IF o.raised # None /\ RaiseTarget(scope, o.raised) = "done"
                           THEN <<o.raised>> ELSE escaped
    /\ ops' = ops + 1
    /\ UNCHANGED <<scope, close_calls, late_calls, saved, rendered, delivery, raised,
                   resolved, before, args, result>>

\* the body returns; main() returns only past handle_semgrep_core_output
BodyReturn ==
    /\ pc = "body"
    /\ scope = "invoke_semgrep" => self.stats_line # "None"
    /\ pc' = IF scope = "managed_output" THEN "finally" ELSE "close"
    /\ UNCHANGED <<scope, self, pending, ops, close_calls, late_calls, saved,
                   rendered, delivery, ingested, repeated, thrown, raised, resolved,
                   escaped, before, args, result>>

\* an except clause that lets the exception go on without recording it
ManagedExcept_not_recorded ==
    /\ pc = "except"
    /\ pc' = "finally"
    /\ UNCHANGED <<scope, self, pending, ops, close_calls, late_calls, saved,
                   rendered, delivery, ingested, repeated, thrown, raised, resolved,
                   escaped, before, args, result>>

\* except Exception as ex: output_handler.handle_unhandled_exception(ex)
ManagedExcept ==
    /\ pc = "except"
    /\ self' = handle_unhandled_exception(self, pending)
    /\ pending' = None
    /\ pc' = "finally"
    /\ ingested' = ingested \cup (IF IsSemgrepError(pending) THEN {pending} ELSE {})
    /\ repeated' = (repeated \/ pending \in ingested)
    /\ UNCHANGED <<scope, ops, close_calls, late_calls, saved, rendered, delivery,
                   thrown, raised, resolved, escaped, before, args, result>>

\* the exceptions leaving a scope whose close() raised `closing` while
\* `inflight` was still propagating: the new exception replaces the old one
Leaving(closing, inflight) ==
    IF closing # None THEN <<closing>>
    ELSE IF inflight # None THEN <<inflight>> ELSE <<>>

\* the call output_handler.close() with the environment's outcomes
CallClose(isatty, print_result, save_result) ==
    \E c \in {close(self, isatty, print_result, save_result)} :
    /\ before' = self
    /\ self' = c.h
    /\ saved' = saved \o c.written
    /\ rendered' = rendered + c.rendered
    /\ delivery' = c.delivery
    /\ raised' = c.raised
    /\ resolved' = c.resolved
    /\ close_calls' = close_calls + 1

\* finally: output_handler.close()
ManagedFinally ==
    /\ pc = "finally"
    /\ \E isatty \in BOOLEAN, print_result \in PrintResults,
          save_result \in SaveResults(self.settings.output_destination) :
          /\ CallClose(isatty, print_result, save_result)
          /\ escaped' = Leaving(raised', pending)
    /\ pc' = "done"
    /\ UNCHANGED <<scope, pending, ops, late_calls, ingested, repeated, thrown,
                   args, result>>

\* output_handler.close(); return json.loads(io_capture.getvalue())
InvokeClose ==
    /\ pc = "close"
    /\ \E isatty \in BOOLEAN, print_result \in PrintResults,
          save_result \in SaveResults(self.settings.output_destination) :
          /\ CallClose(isatty, print_result, save_result)
          /\ escaped' = IF raised' # None THEN <<raised'>>
                        ELSE IF self'.stdout = <<>>
                             THEN <<Exc("JSONDecodeError", "", "", "", "", "")>>
                             ELSE <<>>
    /\ pc' = "done"
    /\ UNCHANGED <<scope, pending, ops, late_calls, ingested, repeated, thrown,
                   args, result>>

Next ==
    \/ HandleSemgrepErrors
    \/ HandleSemgrepError
    \/ HandleSemgrepCoreOutput
    \/ HandleUnhandledException
    \/ MainEngineResults
    \/ BodyRaise
    \/ BodyReturn
    \/ ManagedExcept
    \/ ManagedFinally
    \/ InvokeClose

Spec == Init /\ [][Next]_vars

----------------------------------------------------------------------------
(* The functions called on their own: the arguments are drawn in the        *)
(* initial state, the call is one step, no handler is involved.             *)

\* the state of a call that has not been made: no scope, an untouched handler
FunctionInit ==
    /\ scope = "function"
    /\ pc = "call"
    /\ self = OutputHandler(InvokeSettings)
    /\ before = self
    /\ pending = None
    /\ ops = 0
    /\ close_calls = 0
    /\ late_calls = 0
    /\ saved = <<>>
    /\ rendered = 0
    /\ delivery = "none"
    /\ ingested = {}
    /\ repeated = FALSE
    /\ thrown = None
    /\ raised = None
    /\ resolved = Unresolved
    /\ escaped = <<>>
    /\ result = <<>>

\* the call returns (or raises): result holds the outcome
FunctionReturn(outcome) ==
    /\ pc = "call"
    /\ result' = <<outcome>>
    /\ pc' = "returned"
    /\ UNCHANGED <<scope, self, pending, ops, close_calls, late_calls, saved,
                   rendered, delivery, ingested, repeated, thrown, raised, resolved,
                   escaped, before, args>>

\* first lines of a match: without annotation, with a bare one, with id lists
NosemLines ==
    {"x == x", "x == x  # nosem", "x == x  # nosem: r1", "x == x  # nosem: r2",
     "x == x  # nosem: r1, r2", "x == x  # nosem: r2, r3", "x == x  # nosem: 'r1'",
     "x == x  /* nosem: r1, */", "x == x  <!-- nosem: -->"}

\* matches of three rules: without lines, of one line, and of two lines of which
\* only the second may carry an annotation
NosemMatches ==
    { RuleMatch(id, "a.py", "dangerous ==", "ERROR", lines, Pos(3, 1), Pos(3, 5)) :
        id \in {"r1", "r2", "python.r1"},
        lines \in {<<>>} \cup {<<l>> : l \in NosemLines}
                        \cup {<<"x == x", l>> : l \in NosemLines} }

InitNosem ==
    /\ FunctionInit
    /\ args \in {[rule_match |-> m, strict |-> st] : m \in NosemMatches, st \in BOOLEAN}

\* is_ignored = rule_match_nosem(rule_match, strict)
CallRuleMatchNosem ==
    /\ pc = "call"
    /\ \E outcome \in rule_match_nosem(args.rule_match, args.strict) :
          FunctionReturn(outcome)

NextNosem == CallRuleMatchNosem

SpecNosem == InitNosem /\ [][NextNosem]_vars

\* matches of one to MaxMatchLines source lines (and one without lines)
LineMatches ==
    { RuleMatch("r1", "a.py", "dangerous ==", "ERROR", [i \in 1..n |-> "x == x"],
                Pos(3, 1), Pos(3 + n, 5)) : n \in 0..MaxMatchLines }

\* matches of two rules in two files with two messages
ListMatches ==
    { RuleMatch(id, path, message, "ERROR", <<"x == x">>, Pos(3, 1), Pos(3, 5)) :
        id \in {"r1", "r2"}, path \in {"a.py", "b.py"},
        message \in {"dangerous ==", "useless"} }

\* the message keys an error's dict can have: message and long_msg may be
\* missing or None, short_msg may be missing
MessageFields ==
    { fields \in UNION {[keys -> {"None", "bad pattern", "parse failure", "failure"}] :
                           keys \in SUBSET {"message", "long_msg", "short_msg"}} :
        \A key \in DOMAIN fields :
            fields[key] \in (CASE key = "message" -> {"None", "bad pattern"}
                               [] key = "long_msg" -> {"None", "parse failure"}
                               [] OTHER -> {"failure"}) }

\* structured errors of both levels with every combination of message keys
SarifErrors ==
    { [cls |-> "SemgrepError", level |-> level, fields |-> fields] :
        level \in {"ERROR", "WARN"}, fields \in MessageFields }

InitRender ==
    /\ FunctionInit
    /\ args \in
         { [fn |-> "finding_to_line", rule_match |-> m, color_output |-> c,
            per_finding_max_lines_limit |-> k, show_separator |-> sep] :
             m \in LineMatches, c \in BOOLEAN, k \in 0..MaxLinesLimit,
             sep \in BOOLEAN }
         \cup
         { [fn |-> "build_normal_output", rule_matches |-> ms, color_output |-> FALSE,
            per_finding_max_lines_limit |-> k] :
             ms \in UNION {[1..n -> ListMatches] : n \in 1..MaxListLen},
             k \in {0, 1} }
         \cup
         { [fn |-> "build_sarif_output", rule_matches |-> <<F1>>, rules |-> {"r1"},
            semgrep_structured_errors |-> errors] :
             errors \in UNION {[1..n -> SarifErrors] : n \in 0..MaxListLen} }

\* list(finding_to_line(rule_match, color_output, limit, show_separator))
CallFindingToLine ==
    /\ pc = "call"
    /\ args.fn = "finding_to_line"
    /\ FunctionReturn(finding_to_line(args.rule_match, args.color_output,
                                      args.per_finding_max_lines_limit,
                                      args.show_separator))

\* list(build_normal_output(rule_matches, color_output, limit))
CallBuildNormalOutput ==
    /\ pc = "call"
    /\ args.fn = "build_normal_output"
    /\ FunctionReturn(build_normal_output(args.rule_matches, args.color_output,
                                          args.per_finding_max_lines_limit))

\* build_sarif_output(rule_matches, rules, semgrep_structured_errors)
CallBuildSarifOutput ==
    /\ pc = "call"
    /\ args.fn = "build_sarif_output"
    /\ FunctionReturn(build_sarif_output(args.rule_matches, args.rules,
                                         args.semgrep_structured_errors))

NextRender ==
    \/ CallFindingToLine
    \/ CallBuildNormalOutput
    \/ CallBuildSarifOutput

SpecRender == InitRender /\ [][NextRender]_vars

\* matches of rule r1 in a.py: not annotated, annotated bare, for r2, for r1
R1Matches ==
    {F1, N1, N2,
     RuleMatch("r1", "a.py", "dangerous ==", "ERROR", <<"x == x  # nosem: r1">>,
               Pos(7, 1), Pos(7, 5))}

\* what rule r2 found: nothing, a match without annotation, one annotated for
\* r1 and r2
R2Results ==
    {<<>>, <<F2>>,
     <<RuleMatch("r2", "a.py", "useless", "WARNING", <<"x == x  # nosem: r1, r2">>,
                 Pos(9, 1), Pos(9, 5))>>}

\* engine runs of the rules r1 and r2, each with up to MaxRuleMatches matches of r1
MainRuns ==
    { CoreRun(<< <<"r1", r1_matches>>, <<"r2", r2_matches>> >>, <<>>, <<>>,
              {"a.py"}, "profiler3", {}, <<"r1", "r2">>) :
        r1_matches \in UNION {[1..n -> R1Matches] : n \in 0..MaxRuleMatches},
        r2_matches \in R2Results }

InitMain ==
    /\ FunctionInit
    /\ args \in { [fn |-> "main", run |-> run, strict |-> st, disable_nosem |-> dn] :
                    run \in MainRuns, st \in BOOLEAN, dn \in BOOLEAN }

\* main() from the engine's results on, with a handler that has nothing yet
CallMainEngineResults ==
    /\ pc = "call"
    /\ \E outcome \in main_engine_results(self, args.run, args.strict,
                                          args.disable_nosem) :
          FunctionReturn(outcome)

NextMain == CallMainEngineResults

SpecMain == InitMain /\ [][NextMain]_vars

----------------------------------------------------------------------------
(* The handler driven method by method: any sequence of calls of its four   *)
(* ingestion methods, then close().  args records the calls, before is the  *)
(* handler as the last call found it.                                       *)

\* text and a non-text format, with and without verbose errors, a timeout
\* threshold and error_on_findings; no destination
HandlerSettings ==
    { OutputSettings(f, NoDestination, eof, v, FALSE, FALSE, FALSE, t) :
        f \in {"TEXT", "JSON"}, eof \in BOOLEAN, v \in BOOLEAN, t \in {0, 2} }

RuleIds == <<"r1", "r2", "r3", "r4", "r5", "r6">>

\* n timeouts on one path, of n rules, in descending order of rule id
TimeoutsOn(path, n) ==
    [i \in 1..n |-> MatchTimeoutError(path, RuleIds[n + 1 - i])]

\* the error lists handed to handle_semgrep_errors: other errors, repeated
\* errors, timeouts on one and on two paths, up to and beyond the hint limit
HandlerBatches ==
    { <<>>, <<W1>>, <<E1, E1>>, <<T1, E1, T1>>,
      TimeoutsOn("a.py", 2),
      TimeoutsOn("b.py", 2) \o TimeoutsOn("a.py", 1),
      <<MatchTimeoutError("a.py", "r2"), MatchTimeoutError("b.py", "r1"), T1>>,
      TimeoutsOn("a.py", TimeoutThresholdHintLimit + 1),
      TimeoutsOn("a.py", TimeoutThresholdHintLimit + 1)
          \o TimeoutsOn("b.py", TimeoutThresholdHintLimit + 1) }

InitHandler ==
    /\ scope = "handler"
    /\ pc = "body"
    /\ self \in {OutputHandler(output_settings) : output_settings \in HandlerSettings}
    /\ before = self
    /\ args = <<>>
    /\ result = <<>>
    /\ pending = None
    /\ ops = 0
    /\ close_calls = 0
    /\ late_calls = 0
    /\ saved = <<>>
    /\ rendered = 0
    /\ delivery = "none"
    /\ ingested = {}
    /\ repeated = FALSE
    /\ thrown = None
    /\ raised = None
    /\ resolved = Unresolved
    /\ escaped = <<>>

\* the call self.fn(arg), which leaves the handler as h
HandlerCall(fn, arg, h) ==
    /\ pc = "body"
    /\ ops < MaxCalls
    /\ before' = self
    /\ self' = h
    /\ args' = Append(args, [fn |-> fn, arg |-> arg])
    /\ ops' = ops + 1
    /\ UNCHANGED <<scope, pc, pending, close_calls, late_calls, saved, rendered,
                   delivery, ingested, repeated, thrown, raised, resolved, escaped,
                   result>>

CallHandleSemgrepErrors ==
    /\ pc = "body"
    /\ \E errors \in HandlerBatches :
          \E h \in {handle_semgrep_errors(self, errors)} :
             HandlerCall("handle_semgrep_errors", errors, h)

CallHandleSemgrepError ==
    /\ pc = "body"
    /\ \E error \in StructuredErrors :
          \E h \in {handle_semgrep_error(self, error)} :
             HandlerCall("handle_semgrep_error", error, h)

CallHandleSemgrepCoreOutput ==
    /\ pc = "body"
    /\ \E run \in EngineRuns :
          \E h \in {handle_semgrep_core_output(self, run)} :
             HandlerCall("handle_semgrep_core_output", run, h)

CallHandleUnhandledException ==
    /\ pc = "body"
    /\ \E ex \in {E1, W1, X1} :
          \E h \in {handle_unhandled_exception(self, ex)} :
             HandlerCall("handle_unhandled_exception", ex, h)

\* close() on a terminal-less stdout that takes the report
HandlerClose ==
    /\ pc = "body"
    /\ CallClose(FALSE, "ok", "ok")
    /\ escaped' = Leaving(raised', None)
    /\ pc' = "done"
    /\ UNCHANGED <<scope, pending, ops, late_calls, ingested, repeated, thrown,
                   args, result>>

NextHandler ==
    \/ CallHandleSemgrepErrors
    \/ CallHandleSemgrepError
    \/ CallHandleSemgrepCoreOutput
    \/ CallHandleUnhandledException
    \/ HandlerClose

SpecHandler == InitHandler /\ [][NextHandler]_vars

----------------------------------------------------------------------------
(* Properties *)

\* close() was called and the scope is over
Closed == pc = "done" /\ close_calls = 1

\* close() got past rendering and delivery to the resolution of the cause
Resolved == Closed /\ resolved # Unresolved

FindingsError == SemgrepError("", "FINDINGS_EXIT_CODE")

\* C1: whatever errors were handed to handle_semgrep_errors, handle_semgrep_error
\* and handle_unhandled_exception, repeated or not, semgrep_structured_errors
\* holds every distinct error handed over exactly once, and nothing else.
C1_EachDistinctErrorOnce ==
    /\ \A e \in ingested : Count(self.semgrep_structured_errors, e) = 1
    /\ Range(self.semgrep_structured_errors) = ingested

\* a timeout error and another error were handed over, one of them repeatedly
C1_Witness ==
    /\ repeated
    /\ ingested = {T1, E1}
    /\ Len(self.semgrep_structured_errors) = 2

\* C2: close() resolves the cause by priority: the recorded final_error; else
\* the message-less findings error when there are matches and error_on_findings
\* is set; else the last accumulated error with "N files could not be
\* analyzed"; else none.
C2_CausePriority ==
    Resolved =>
        IF self.final_error # None
        THEN resolved.final_error = self.final_error
        ELSE IF self.rule_matches # <<>> /\ self.settings.error_on_findings
        THEN /\ IsSemgrepError(resolved.final_error)
             /\ resolved.final_error.msg = ""
             /\ resolved.final_error.code = "FINDINGS_EXIT_CODE"
        ELSE IF self.semgrep_structured_errors # <<>>
        THEN /\ resolved.final_error =
                    self.semgrep_structured_errors[Len(self.semgrep_structured_errors)]
             /\ resolved.error_stats =
                    <<Len(self.semgrep_structured_errors), "files could not be analyzed">>
        ELSE resolved.final_error = None

\* matches and two errors were accumulated, no final error was recorded and
\* error_on_findings is off: the cause is the last of the two errors
C2_Witness ==
    /\ Resolved
    /\ self.final_error = None
    /\ self.rule_matches # <<>>
    /\ ~self.settings.error_on_findings
    /\ self.semgrep_structured_errors = <<E1, W1>>
    /\ resolved.final_error = W1

\* the hint of final_raise is the last record of the log
HintLogged ==
    /\ self.stderr # <<>>
    /\ self.stderr[Len(self.stderr)][1] = "hint"
    /\ self.stderr[Len(self.stderr)][2] = resolved.error_stats

\* C3: the resolved cause is raised when it is an ERROR-level structured error
\* or not a structured error; a WARN-level structured error is raised only in
\* strict mode, and otherwise a hint is logged and close() raises nothing; no
\* cause, nothing raised.
C3_Disposition ==
    Resolved =>
        LET ex == resolved.final_error
            tolerated == IsSemgrepError(ex) /\ ex.level = "WARN"
                         /\ ~self.settings.strict
        IN /\ raised = IF ex = None \/ tolerated THEN None ELSE ex
           /\ tolerated <=> HintLogged

\* only WARN-level errors were handed over, strict is off: close() raises nothing
C3_Witness ==
    /\ Resolved
    /\ ingested = {T1, W1}
    /\ resolved.final_error.level = "WARN"
    /\ ~self.settings.strict
    /\ raised = None
    /\ escaped = <<>>
    /\ HintLogged

\* C4: when a match, a structured error or an engine run's stats were
\* accumulated, close() invokes the renderer of the active format.
C4_RendersWhatWasAccumulated ==
    Closed /\ (\/ self.rule_matches # <<>>
               \/ self.semgrep_structured_errors # <<>>
               \/ self.stats_line # "None")
        => rendered = 1

\* C5: with no match, no error, no stats and no recorded final error, close()
\* invokes no renderer, writes nothing to stdout or the destination and raises
\* nothing.
C5_EmptyReportSuppressed ==
    Closed /\ self.rule_matches = <<>> /\ self.semgrep_structured_errors = <<>>
           /\ self.stats_line = "None" /\ self.final_error = None
        => /\ rendered = 0
           /\ self.stdout = <<>>
           /\ saved = <<>>
           /\ raised = None

\* the body made handler calls that accumulated nothing, a destination is
\* configured, and the handler was closed
C5_Witness ==
    /\ Closed
    /\ ops > 0
    /\ self.has_output = FALSE
    /\ self.semgrep_structured_errors = <<>>
    /\ self.settings.output_destination # NoDestination
    /\ saved = <<>>
    /\ escaped = <<>>

\* the report went to stdout and, when one is configured, to the destination
Delivered ==
    /\ rendered = 1
    /\ Len(self.stdout) = 1
    /\ self.settings.output_destination # NoDestination
         => Len(saved) = 1 /\ saved[1][3] = self.stdout[1]

\* C6: with error_on_findings set, a match accumulated and no final error
\* recorded, a close() whose rendering and delivery succeed has written the
\* report (in the JSON formats with one result per match) when it raises the
\* findings error, and it raises it whatever strict and the accumulated errors
\* are; the findings error is raised in no other way.
C6_FindingsOutcomeAfterDelivery ==
    Closed /\ self.settings.error_on_findings /\ self.rule_matches # <<>>
           /\ self.final_error = None
        => /\ resolved # Unresolved => raised = FindingsError
           /\ raised = FindingsError =>
                /\ Delivered
                /\ escaped = <<FindingsError>>
                /\ is_json(self.settings.output_format) =>
                      Len(self.stdout[1].body.results) = Len(self.rule_matches)

\* JSON, strict off, a WARN-level error accumulated after the matches
C6_Witness ==
    /\ Closed
    /\ self.settings.output_format = "JSON"
    /\ self.settings.error_on_findings
    /\ ~self.settings.strict
    /\ self.semgrep_structured_errors = <<W1>>
    /\ Len(self.rule_matches) = 3
    /\ raised = FindingsError
    /\ Len(self.stdout) = 1
    /\ Len(self.stdout[1].body.results) = 3

\* C7: at most one exception leaves managed_output; an Exception raised by the
\* body is recorded as final_error, and what leaves the scope is what close()
\* raised and nothing more.
C7_OneOutcome ==
    scope = "managed_output" /\ pc = "done"
        => /\ Len(escaped) <= 1
           /\ IsException(thrown) =>
                /\ self.final_error = thrown
                /\ escaped = IF raised # None THEN <<raised>> ELSE <<>>

\* the body raised a non-structured exception after a structured error was
\* accumulated, and that exception alone left the scope
C7_Witness ==
    /\ scope = "managed_output"
    /\ pc = "done"
    /\ thrown = X1
    /\ self.semgrep_structured_errors = <<E1>>
    /\ escaped = <<X1>>

\* C8: on every exit path of managed_output and of invoke_semgrep, close() is
\* called exactly once and no handler call follows it.
C8_ClosedExactlyOnce ==
    pc = "done" => close_calls = 1 /\ late_calls = 0

DeliveryFailures == {"print:UnicodeEncodeError", "write:OSError", "post:Timeout"}

\* C9: an encoding error on stdout, a failed write of the destination file and
\* a timed-out POST are raised out of close(), whatever strict, the
\* accumulated errors, error_on_findings and a recorded final error are.
C9_DeliveryFailureRaised ==
    Closed /\ delivery \in DeliveryFailures
        => /\ raised # None
           /\ escaped = <<raised>>
           /\ delivery = "print:UnicodeEncodeError" => raised = EncodingException
           /\ delivery = "write:OSError" => raised.cls = "OSError"
           /\ delivery = "post:Timeout" => raised.cls = "SemgrepError"

\* strict off, a WARN-level final error recorded, the file write fails
C9_Witness ==
    /\ Closed
    /\ ~self.settings.strict
    /\ ~self.settings.error_on_findings
    /\ self.final_error = W1
    /\ delivery = "write:OSError"
    /\ raised.cls = "OSError"

\* C10: a timed-out POST makes close() raise a SemgrepError whose message
\* names the URL; another transport error leaves close() as it is.
C10_PostTimeoutStructured ==
    Closed =>
        /\ delivery = "post:Timeout" =>
              /\ IsSemgrepError(raised)
              /\ raised.msg = "posting output to "
                              \o self.settings.output_destination.name
                              \o " timed out"
        /\ delivery = "post:ConnectionError" =>
              raised = Exc("ConnectionError", "", "", "", "", "")

\* the destination is a URL and the POST timed out
C10_Witness ==
    /\ Closed
    /\ is_url(self.settings.output_destination)
    /\ delivery = "post:Timeout"
    /\ raised.cls = "SemgrepError"
    /\ saved = <<>>

\* C11: close() writes the rendered report to one place only: to stdout when
\* no destination is configured, otherwise to the destination and not to
\* stdout; one report is written per run.
C11_WrittenToOnePlace ==
    Closed =>
        /\ Len(self.stdout) + Len(saved) <= 1
        /\ self.settings.output_destination = NoDestination => saved = <<>>
        /\ self.settings.output_destination # NoDestination => self.stdout = <<>>

\* the fields in which the handler accumulates what it is handed
AccumulatedState(h) ==
    <<h.rule_matches, h.semgrep_structured_errors, h.error_set, h.rules,
      h.debug_steps_by_rule, h.stats_line, h.all_targets, h.filtered_rules,
      h.match_time_matrix, h.final_error>>

\* C12: build_output and close() leave the matches and their order, the
\* errors and the error set, the rules, the debug steps, the stats line, the
\* targets, the filtered rules, the match times and the recorded final error
\* as they were when close() was called, in every format.
C12_RenderingLeavesStateAlone ==
    Closed => AccumulatedState(self) = AccumulatedState(before)

\* a text report was rendered from matches that are not in (path, id) order
C12_Witness ==
    /\ Closed
    /\ rendered = 1
    /\ self.settings.output_format = "TEXT"
    /\ self.rule_matches = <<F2, F3, F1>>
    /\ SortByPathId(self.rule_matches) # self.rule_matches
    /\ Len(self.stdout) = 1

IsNosemError(ex) ==
    /\ IsSemgrepError(ex)
    /\ \E p \in {"r1", "r2", "r3"}, r \in {"r1", "r2", "python.r1"} :
          ex.msg = NosemMismatchMessage(p, r)

\* the step in which main() raises the filter's error: the handler has the
\* engine's errors and nothing else of the run, and close() has not been called
NosemRaisedAtFilterTime ==
    thrown = None /\ IsNosemError(thrown') =>
        /\ pc = "body" /\ pc' # "body"
        /\ close_calls' = 0
        /\ ingested' \subseteq self'.error_set
        /\ self'.rule_matches = self.rule_matches
        /\ self'.stats_line = self.stats_line
        /\ self'.rules = self.rules

\* under managed_output the filter's error is the recorded final error, and a
\* close() that gets past delivery raises it
NosemErrorIsTheOutcome ==
    scope = "managed_output" /\ pc = "done" /\ IsNosemError(thrown) =>
        /\ self.final_error = thrown
        /\ Count(self.semgrep_structured_errors, thrown) = 1
        /\ resolved # Unresolved => raised = thrown /\ escaped = <<thrown>>

\* C14: in strict mode an identifier mismatch is raised by main() at filter
\* time: after the engine's errors were handed to handle_semgrep_errors and
\* before handle_semgrep_core_output, so that no match of the run is
\* accumulated; under managed_output the error is recorded as final_error
\* and raised by close().
C14_MismatchRaisedAtFilterTime ==
    [][NosemRaisedAtFilterTime]_vars /\ []NosemErrorIsTheOutcome

\* the engine reported a timeout and a match annotated for another rule: the
\* timeout was accumulated, no match was, and close() raised the filter's error
C14_Witness ==
    /\ scope = "managed_output"
    /\ pc = "done"
    /\ IsNosemError(thrown)
    /\ self.semgrep_structured_errors = <<T1, thrown>>
    /\ self.rule_matches = <<>>
    /\ self.stats_line = "None"
    /\ raised = thrown

\* the annotation of the first line of the match the filter was called on
FirstLine == NOSEM_INLINE_RE_search(args.rule_match.lines[1])

\* the listed identifiers that differ from the rule id of the match
OtherIds == {p \in PatternIds(FirstLine.ids) : p # args.rule_match.id}

\* C15: a match whose first line carries an annotation without identifiers is
\* suppressed whatever its rule id and strict are, and nothing is raised; a
\* match without lines or whose first line carries no annotation is not
\* suppressed, whatever its later lines carry.
C15_BareAnnotationSuppresses ==
    pc = "returned" =>
        IF args.rule_match.lines = <<>>
        THEN result[1] = [returned |-> FALSE, raised |-> None]
        ELSE /\ FirstLine.found /\ ~FirstLine.has_ids
                  => result[1] = [returned |-> TRUE, raised |-> None]
             /\ ~FirstLine.found
                  => result[1] = [returned |-> FALSE, raised |-> None]

\* strict mode, a bare annotation on the only line of a match of python.r1
C15_Witness ==
    /\ pc = "returned"
    /\ args.strict
    /\ args.rule_match.id = "python.r1"
    /\ args.rule_match.lines = <<"x == x  # nosem">>
    /\ result[1].returned
    /\ result[1].raised = None

\* C16: when the first line's annotation lists an identifier that is not the
\* match's rule id, the filter marks the match ignored in non-strict mode
\* and raises in strict mode.
C16_MismatchIgnoredOrFatal ==
    pc = "returned" /\ args.rule_match.lines # <<>> =>
        (FirstLine.found /\ FirstLine.has_ids /\ OtherIds # {} =>
            IF args.strict
            THEN IsSemgrepError(result[1].raised)
            ELSE result[1] = [returned |-> TRUE, raised |-> None])

\* C16 as amended: in non-strict mode the identifier that does not match is
\* passed over and the match is marked ignored only when another listed
\* identifier is its rule id; in strict mode the filter raises an ERROR-level
\* SemgrepError that names one of the identifiers that do not match.
C16_MismatchPassedOverOrFatal ==
    pc = "returned" /\ args.rule_match.lines # <<>> =>
        (FirstLine.found /\ FirstLine.has_ids /\ OtherIds # {} =>
            IF args.strict
            THEN /\ IsSemgrepError(result[1].raised)
                 /\ result[1].raised.level = "ERROR"
                 /\ \E p \in OtherIds :
                       result[1].raised.msg =
                           NosemMismatchMessage(p, args.rule_match.id)
            ELSE /\ result[1].raised = None
                 /\ result[1].returned <=>
                       PatternIds(FirstLine.ids) \ OtherIds # {})

\* strict mode, rule r1, the annotation lists r2 and r3: the filter raised
C16_Witness ==
    /\ pc = "returned"
    /\ args.strict
    /\ args.rule_match.id = "r1"
    /\ args.rule_match.lines = <<"x == x  # nosem: r2, r3">>
    /\ IsSemgrepError(result[1].raised)

\* C17: in non-strict mode, with an identifier list on the first line, the
\* filter returns true exactly when a listed identifier, stripped of
\* whitespace and quotes and made of identifier characters only, is the
\* match's rule id; the other identifiers change nothing and nothing is raised.
C17_SuppressedIffListed ==
    pc = "returned" /\ ~args.strict /\ args.rule_match.lines # <<>> =>
        (FirstLine.found /\ FirstLine.has_ids =>
            /\ result[1].raised = None
            /\ result[1].returned <=>
                  \E p \in PatternIds(FirstLine.ids) : p = args.rule_match.id)

\* non-strict mode, rule r2, the annotation lists r1 and r2: suppressed
C17_Witness ==
    /\ pc = "returned"
    /\ ~args.strict
    /\ args.rule_match.id = "r2"
    /\ args.rule_match.lines = <<"x == x  # nosem: r1, r2">>
    /\ result[1] = [returned |-> TRUE, raised |-> None]

\* the source lines, markers and separators finding_to_line returned
Shown(tag) == {i \in 1..Len(result[1]) : result[1][i][1] = tag}

\* finding_to_line was called on a match with lines and a limit
LineRendererReturned ==
    /\ pc = "returned"
    /\ args.fn = "finding_to_line"
    /\ args.rule_match.lines # <<>>
    /\ args.per_finding_max_lines_limit > 0

\* C18: finding_to_line shows at most per_finding_max_lines_limit source
\* lines, and whenever the limit is below the number of lines of the match it
\* ends with the marker, which reports the number of lines minus the limit.
C18_AtMostMaxLinesAndMarker ==
    LineRendererReturned =>
        LET limit == args.per_finding_max_lines_limit
            total == Len(args.rule_match.lines)
        IN /\ Cardinality(Shown("line")) <= limit
           /\ limit < total =>
                 result[1][Len(result[1])] = <<"trimmed", total - limit>>

\* C18 as amended: at most limit source lines are shown; when the limit is
\* below the number of lines and is not 1, the output ends with the one
\* marker, which reports the number of lines minus the limit; with a limit of
\* 1 the output is the first source line and nothing else.
C18_AtMostMaxLinesAndMarkerUnlessOne ==
    LineRendererReturned =>
        LET limit == args.per_finding_max_lines_limit
            total == Len(args.rule_match.lines)
        IN /\ Cardinality(Shown("line")) <= limit
           /\ limit < total /\ limit # 1 =>
                 /\ result[1][Len(result[1])] = <<"trimmed", total - limit>>
                 /\ Cardinality(Shown("trimmed")) = 1
                 /\ Cardinality(Shown("line")) = limit
           /\ limit = 1 => Len(result[1]) = 1 /\ Shown("line") = {1}

\* four lines under a limit of two: two lines and the marker for two more
C18_Witness ==
    /\ LineRendererReturned
    /\ args.per_finding_max_lines_limit = 2
    /\ Len(args.rule_match.lines) = 4
    /\ Len(result[1]) = 3
    /\ result[1][3] = <<"trimmed", 2>>

\* C19: in the text report, of two matches that follow each other in (path,
\* id) order in the same file, the second gets no rule/message header exactly
\* when its rule id and its message are those of the first; after a change of
\* path every match gets its header.
C19_HeaderOmittedIffSameRuleAndMessage ==
    pc = "returned" /\ args.fn = "build_normal_output" =>
        LET sorted == SortByPathId(args.rule_matches)
            repeats == {i \in 2..Len(sorted) :
                           /\ sorted[i].path = sorted[i - 1].path
                           /\ sorted[i].id = sorted[i - 1].id
                           /\ sorted[i].message = sorted[i - 1].message}
        IN Cardinality(Shown("rule")) = Len(sorted) - Cardinality(repeats)

\* C20: build_output returns a report for the accumulated state in every
\* format: when close() has rendered, it did not fail with the IndexError of
\* a match without source lines or the KeyError of a severity outside
\* INFO/WARNING/ERROR.
C20_RenderersTotal ==
    Closed /\ rendered = 1 =>
        raised \notin {Exc("IndexError", "", "", "", "list index out of range", ""),
                       Exc("KeyError", "", "", "", "severity", "")}

\* the message the claim gives the notification of an error
PreferredMessage(error) ==
    LET Present(key) == key \in DOMAIN error.fields /\ error.fields[key] # "None"
    IN IF Present("message") THEN error.fields["message"]
       ELSE IF Present("long_msg") THEN error.fields["long_msg"]
       ELSE IF Present("short_msg") THEN error.fields["short_msg"]
       ELSE ""

\* C21: the SARIF report has one tool-execution notification per structured
\* error, in the order of the errors; its level is "error" for ERROR and
\* "warning" for WARN; its message text is the error's message if it has
\* one, else its long message, else its short message, else the empty string.
C21_SarifNotificationPerError ==
    pc = "returned" /\ args.fn = "build_sarif_output" =>
        LET errors == args.semgrep_structured_errors
            notifications == result[1].toolExecutionNotifications
        IN /\ Len(notifications) = Len(errors)
           /\ \A i \in 1..Len(errors) :
                 /\ notifications[i].level =
                        (IF errors[i].level = "ERROR" THEN "error" ELSE "warning")
                 /\ notifications[i].message = PreferredMessage(errors[i])

\* one ERROR-level error without message whose long message is "parse failure"
C21_Witness ==
    /\ pc = "returned"
    /\ args.fn = "build_sarif_output"
    /\ Len(args.semgrep_structured_errors) = 1
    /\ args.semgrep_structured_errors[1].level = "ERROR"
    /\ DOMAIN args.semgrep_structured_errors[1].fields = {"long_msg", "short_msg"}
    /\ result[1].toolExecutionNotifications =
          <<[descriptor |-> "SemgrepError", message |-> "parse failure",
             level |-> "error"]>>

\* the last call made on the handler under test, which has not been closed
LastCall == args[Len(args)]

LastCallWas(fn) == pc = "body" /\ args # <<>> /\ LastCall.fn = fn

\* the engine runs handed to handle_semgrep_core_output so far, in call order
RunsHandled ==
    LET calls == SelectSeq(args, LAMBDA call : call.fn = "handle_semgrep_core_output")
    IN [i \in 1..Len(calls) |-> calls[i].arg]

\* the keys of a dict kept as <<key, value>> pairs
Keys(dict) == {dict[i][1] : i \in 1..Len(dict)}

\* the matches of one engine run, rule after rule
MatchesOf(run) ==
    Flatten([i \in 1..Len(run.rule_matches_by_rule) |-> run.rule_matches_by_rule[i][2]])

\* C22: after any sequence of handle_semgrep_core_output calls, mixed with
\* the other calls, rule_matches is the concatenation in call order of the
\* matches of every run, rules the union of the rules with output in any run,
\* debug_steps_by_rule has for each rule the steps of the last run that
\* carried steps for it, and stats_line, profiler, all_targets,
\* filtered_rules and match_time_matrix are those of the last run; the call
\* leaves the accumulated errors and the recorded final error as they were.
C22_EngineOutputMerged ==
    LET runs == RunsHandled
        last == runs[Len(runs)]
    IN /\ self.rule_matches = Flatten([i \in 1..Len(runs) |-> MatchesOf(runs[i])])
       /\ self.rules = UNION {Keys(runs[i].rule_matches_by_rule) : i \in 1..Len(runs)}
       /\ Keys(self.debug_steps_by_rule)
              = UNION {Keys(runs[i].debug_steps_by_rule) : i \in 1..Len(runs)}
       /\ Len(self.debug_steps_by_rule) = Cardinality(Keys(self.debug_steps_by_rule))
       /\ \A k \in 1..Len(self.debug_steps_by_rule) :
             LET rule == self.debug_steps_by_rule[k][1]
                 latest == CHOOSE i \in 1..Len(runs) :
                              /\ rule \in Keys(runs[i].debug_steps_by_rule)
                              /\ \A j \in (i + 1)..Len(runs) :
                                    rule \notin Keys(runs[j].debug_steps_by_rule)
             IN <<rule, self.debug_steps_by_rule[k][2]>>
                    \in Range(runs[latest].debug_steps_by_rule)
       /\ runs # <<>> =>
             /\ self.stats_line = last.stats_line
             /\ self.profiler = last.profiler
             /\ self.all_targets = last.all_targets
             /\ self.filtered_rules = last.filtered_rules
             /\ self.match_time_matrix = last.match_time_matrix
       /\ LastCallWas("handle_semgrep_core_output") =>
             /\ self.semgrep_structured_errors = before.semgrep_structured_errors
             /\ self.error_set = before.error_set
             /\ self.final_error = before.final_error

\* two runs with matches were handed over: four matches in call order, the
\* debug steps and the stats line of the second run
C22_Witness ==
    /\ LastCallWas("handle_semgrep_core_output")
    /\ Len(RunsHandled) = 2
    /\ self.rule_matches = <<F2, F3, F1, F4>>
    /\ self.debug_steps_by_rule = << <<"r2", "steps2">> >>
    /\ self.stats_line = "ran 1 rules on 1 files: 1 findings"

\* the calls of handle_unhandled_exception made so far
Recorded == {i \in 1..Len(args) : args[i].fn = "handle_unhandled_exception"}

\* the exception handed to the last of them
LastRecorded == args[CHOOSE i \in Recorded : \A j \in Recorded : j <= i].arg

\* C23: once handle_unhandled_exception(e) was called, e is the recorded
\* final error and the cause close() resolves, whatever matches and errors
\* are handed over afterwards and whatever error_on_findings is; of several
\* recorded exceptions the last is the cause.  A recorded SemgrepError is in
\* semgrep_structured_errors exactly once and in the errors of the JSON
\* report; another exception is not in the list.
C23_RecordedErrorIsTheCause ==
    Recorded # {} =>
        /\ self.final_error = LastRecorded
        /\ pc = "done" =>
              /\ resolved.final_error = LastRecorded
              /\ resolved.error_stats = <<>>
              /\ raised \in {LastRecorded, None}
              /\ raised = None => LastRecorded.level = "WARN"
        /\ \A i \in Recorded :
              IF IsSemgrepError(args[i].arg)
              THEN /\ Count(self.semgrep_structured_errors, args[i].arg) = 1
                   /\ pc = "done" /\ self.settings.output_format = "JSON" =>
                         Count(self.stdout[1].body.errors, <<"to_dict", args[i].arg>>) = 1
              ELSE ~Contains(self.semgrep_structured_errors, args[i].arg)

\* error_on_findings is set; a RuntimeError was recorded, then a run with
\* matches was handed over: close() raised the RuntimeError
C23_Witness ==
    /\ pc = "done"
    /\ self.settings.error_on_findings
    /\ Len(args) = 2
    /\ args[1] = [fn |-> "handle_unhandled_exception", arg |-> X1]
    /\ args[2].fn = "handle_semgrep_core_output"
    /\ self.rule_matches # <<>>
    /\ self.semgrep_structured_errors = <<>>
    /\ resolved.final_error = X1
    /\ raised = X1

\* what the last call appended to the logger's stream
Emitted == SubSeq(self.stderr, Len(before.stderr) + 1, Len(self.stderr))

\* the records of one kind among them
EmittedOf(kind) == SelectSeq(Emitted, LAMBDA record : record[1] = kind)

\* C24: handle_semgrep_error(e) appends e to semgrep_structured_errors when
\* no equal error is in it and leaves the list alone otherwise; it logs e
\* at once when e is new, the format is TEXT and e is not a WARN-level error
\* with verbose_errors off, and logs nothing in any other case, in
\* particular in the other formats.  Over any sequence of calls no error is
\* logged twice.
C24_ErrorAddedOnceLoggedOnce ==
    /\ LastCallWas("handle_semgrep_error") =>
          LET error == LastCall.arg
              new == ~Contains(before.semgrep_structured_errors, error)
              logged == /\ new
                        /\ self.settings.output_format = "TEXT"
                        /\ (error.level # "WARN" \/ self.settings.verbose_errors)
          IN /\ self.semgrep_structured_errors =
                    IF new THEN Append(before.semgrep_structured_errors, error)
                    ELSE before.semgrep_structured_errors
             /\ Len(self.stderr) >= Len(before.stderr)
             /\ SubSeq(self.stderr, 1, Len(before.stderr)) = before.stderr
             /\ Emitted = IF logged THEN << <<"error", error>> >> ELSE <<>>
    /\ \A error \in StructuredErrors : Count(self.stderr, <<"error", error>>) <= 1
    /\ self.settings.output_format # "TEXT" =>
          \A i \in 1..Len(self.stderr) : self.stderr[i][1] # "error"

\* TEXT with verbose_errors: the WARN-level error was logged by the first call
\* and not by the second
C24_Witness ==
    /\ LastCallWas("handle_semgrep_error")
    /\ self.settings.output_format = "TEXT"
    /\ self.settings.verbose_errors
    /\ args = <<[fn |-> "handle_semgrep_error", arg |-> W1],
                [fn |-> "handle_semgrep_error", arg |-> W1]>>
    /\ self.semgrep_structured_errors = <<W1>>
    /\ self.stderr = << <<"error", W1>> >>

\* the timeouts of the last call's list that the call accumulated: those not
\* accumulated before it, each counted where it first occurs in the list
NewTimeouts ==
    {i \in 1..Len(LastCall.arg) :
        /\ IsMatchTimeoutError(LastCall.arg[i])
        /\ LastCall.arg[i] \notin before.error_set
        /\ \A j \in 1..(i - 1) : LastCall.arg[j] # LastCall.arg[i]}

NewTimeoutsOn(path) == {i \in NewTimeouts : LastCall.arg[i].path = path}

TimeoutPaths == {LastCall.arg[i].path : i \in NewTimeouts}

\* C25: handle_semgrep_errors accumulates every error of its list that is not
\* accumulated yet, timeouts and others alike; in TEXT format it logs, for
\* each path on which the call accumulated timeouts, one warning with the
\* number of those timeouts, their rule ids in sorted order, and the note
\* that the target was skipped exactly when that number is the configured
\* timeout_threshold; in the other formats it logs no warning.
C25_TimeoutWarningPerPath ==
    LastCallWas("handle_semgrep_errors") =>
        LET warnings == EmittedOf("timeout_warning") IN
        /\ Range(self.semgrep_structured_errors)
              = Range(before.semgrep_structured_errors) \cup Range(LastCall.arg)
        /\ Len(self.semgrep_structured_errors)
              = Cardinality(Range(self.semgrep_structured_errors))
        /\ self.settings.output_format # "TEXT" => warnings = <<>>
        /\ self.settings.output_format = "TEXT" =>
              /\ Len(warnings) = Cardinality(TimeoutPaths)
              /\ \A path \in TimeoutPaths :
                    \E k \in 1..Len(warnings) :
                       LET warning == warnings[k][2] IN
                       /\ warning.path = path
                       /\ warning.num_errs = Cardinality(NewTimeoutsOn(path))
                       /\ Len(warning.rules) = warning.num_errs
                       /\ Range(warning.rules)
                             = {LastCall.arg[i].rule_id : i \in NewTimeoutsOn(path)}
                       /\ \A m \in 1..(Len(warning.rules) - 1) :
                             StrRank(warning.rules[m]) <= StrRank(warning.rules[m + 1])
                       /\ warning.stopped
                             <=> warning.num_errs = self.settings.timeout_threshold

\* TEXT with a threshold of two: a list with two timeouts on b.py, of r2 and
\* of r1, and one on a.py gave the warning for b.py with the note and the
\* rule ids sorted, and the warning for a.py without the note
C25_Witness ==
    /\ LastCallWas("handle_semgrep_errors")
    /\ self.settings.output_format = "TEXT"
    /\ self.settings.timeout_threshold = 2
    /\ LastCall.arg = TimeoutsOn("b.py", 2) \o TimeoutsOn("a.py", 1)
    /\ before.semgrep_structured_errors = <<>>
    /\ EmittedOf("timeout_warning")
          = << <<"timeout_warning",
                 [num_errs |-> 2, path |-> "b.py", rules |-> <<"r1", "r2">>,
                  stopped |-> TRUE]>>,
               <<"timeout_warning",
                 [num_errs |-> 1, path |-> "a.py", rules |-> <<"r1">>,
                  stopped |-> FALSE]>> >>

\* C26: in TEXT format without a timeout_threshold, handle_semgrep_errors
\* logs the hint about --timeout-threshold once for every path on which it
\* accumulated more than five timeouts; it logs no hint when a threshold is
\* configured, when no path has more than five, or in another format.
C26_ThresholdHintPerPath ==
    LastCallWas("handle_semgrep_errors") =>
        Len(EmittedOf("threshold_hint")) =
            IF self.settings.output_format = "TEXT"
               /\ self.settings.timeout_threshold = 0
            THEN Cardinality({path \in TimeoutPaths :
                    Cardinality(NewTimeoutsOn(path)) > TimeoutThresholdHintLimit})
            ELSE 0

\* C27: finding_to_line ends with the separator when show_separator is set,
\* the lines were not truncated and the limit is not 1, and emits no
\* separator otherwise; with a limit of 1 it emits neither separator nor
\* marker.  build_normal_output sets show_separator for a match exactly when
\* the next match in (path, id) order has the same path.
C27_SeparatorBetweenMatchesOfAFile ==
    /\ pc = "returned" /\ args.fn = "finding_to_line" =>
          LET limit == args.per_finding_max_lines_limit
              truncated == limit > 0 /\ limit < Len(args.rule_match.lines)
          IN /\ Shown("break") =
                    IF args.show_separator /\ ~truncated /\ limit # 1
                    THEN {Len(result[1])} ELSE {}
             /\ limit = 1 => Shown("break") = {} /\ Shown("trimmed") = {}
    /\ pc = "returned" /\ args.fn = "build_normal_output" =>
          LET sorted == SortByPathId(args.rule_matches)
              followed == {i \in 1..(Len(sorted) - 1) : sorted[i + 1].path = sorted[i].path}
          IN /\ Cardinality(Shown("break")) =
                    IF args.per_finding_max_lines_limit = 1 THEN 0
                    ELSE Cardinality(followed)
             /\ Len(result[1]) \notin Shown("break")
             /\ \A k \in Shown("break") : result[1][k + 1][1] \notin {"path", "blank"}

\* a match of b.py handed over before one of the same file and rule: one
\* separator, between the two
C27_Witness ==
    /\ pc = "returned"
    /\ args.fn = "build_normal_output"
    /\ args.per_finding_max_lines_limit = 0
    /\ Len(args.rule_matches) = 2
    /\ args.rule_matches[1].path = "b.py"
    /\ args.rule_matches[2].path = "b.py"
    /\ Cardinality(Shown("break")) = 1
    /\ Len(result[1]) \notin Shown("break")

\* seq is the beginning of longer
IsPrefix(seq, longer) ==
    Len(seq) <= Len(longer) /\ SubSeq(longer, 1, Len(seq)) = seq

\* error_set holds the elements of semgrep_structured_errors, one each
ErrorSetIsTheList ==
    /\ self.error_set = Range(self.semgrep_structured_errors)
    /\ Cardinality(self.error_set) = Len(self.semgrep_structured_errors)

\* a step appends to the two lists or leaves them, and does not reset has_output
ListsOnlyGrow ==
    /\ IsPrefix(self.semgrep_structured_errors, self'.semgrep_structured_errors)
    /\ IsPrefix(self.rule_matches, self'.rule_matches)
    /\ self.has_output => self'.has_output

\* C28: in every state of the handler, error_set is the set of the elements
\* of semgrep_structured_errors and has as many elements as the list; no
\* method, close() included, removes or reorders an element of
\* semgrep_structured_errors or of rule_matches; has_output never goes back
\* to false.
C28_ErrorSetAndListsGrow ==
    []ErrorSetIsTheList /\ [][ListsOnlyGrow]_vars

\* an error was handed over twice and matches after it, and the handler was
\* closed: the error is in the list once, the matches are all there
C28_Witness ==
    /\ Closed
    /\ repeated
    /\ rendered = 1
    /\ self.semgrep_structured_errors = <<E1>>
    /\ self.error_set = {E1}
    /\ Len(self.rule_matches) = 3

\* C29: when no final error was recorded and the findings error does not
\* apply, close() raises exactly when the last accumulated error is ERROR-level
\* or strict is set, and what it raises is that last error, whatever the
\* levels of the errors accumulated before it; without accumulated errors it
\* raises nothing.
C29_LastErrorDecides ==
    Resolved /\ self.final_error = None
             /\ ~(self.rule_matches # <<>> /\ self.settings.error_on_findings) =>
        IF self.semgrep_structured_errors = <<>>
        THEN raised = None
        ELSE LET last == self.semgrep_structured_errors[Len(self.semgrep_structured_errors)]
             IN /\ raised # None <=> (last.level = "ERROR" \/ self.settings.strict)
                /\ raised # None => raised = last

\* strict off, no matches: an ERROR-level error was accumulated before a
\* WARN-level one, and close() raised nothing
C29_Witness ==
    /\ Resolved
    /\ ~self.settings.strict
    /\ self.final_error = None
    /\ self.rule_matches = <<>>
    /\ self.semgrep_structured_errors = <<E1, W1>>
    /\ raised = None
    /\ escaped = <<>>

\* C30: with an identifier list on the first line, the strict filter raises
\* exactly when the list, after the tokens that are not identifiers are
\* dropped, has an identifier other than the match's rule id, also when the
\* rule id is listed as well; when no token of the list is left, the filter
\* returns false and raises nothing, strict or not.
C30_StrictRaisesOnAnyOtherId ==
    pc = "returned" /\ args.rule_match.lines # <<>>
                    /\ FirstLine.found /\ FirstLine.has_ids =>
        /\ args.strict => (result[1].raised # None <=> OtherIds # {})
        /\ result[1].raised # None => ~result[1].returned
        /\ PatternIds(FirstLine.ids) = {} =>
              result[1] = [returned |-> FALSE, raised |-> None]

\* strict mode, rule r1, the annotation lists r1 and r2: the filter raised for r2
C30_Witness ==
    /\ pc = "returned"
    /\ args.strict
    /\ args.rule_match.id = "r1"
    /\ args.rule_match.lines = <<"x == x  # nosem: r1, r2">>
    /\ result[1].raised = SemgrepError(NosemMismatchMessage("r2", "r1"), "FATAL_EXIT_CODE")

\* the filter raises for a match of the run main() was given
FilterRaises ==
    \E i \in 1..Len(MatchesOf(args.run)) :
        \E o \in rule_match_nosem(MatchesOf(args.run)[i], args.strict) :
            o.raised # None

\* the matches of a rule for which the filter returned false
NotSuppressed(rule_matches) ==
    SelectSeq(rule_matches,
              LAMBDA m : [returned |-> FALSE, raised |-> None]
                             \in rule_match_nosem(m, args.strict))

\* C31: main() evaluates rule_match_nosem on every match of the run whether
\* or not disable_nosem is set.  When the filter raises for a match (strict
\* mode, an identifier that is not the rule id), main() raises that error and
\* hands no match to handle_semgrep_core_output, with disable_nosem too.
\* Otherwise the handler receives, rule by rule and in the run's order, the
\* matches for which the filter returned false, or every match when
\* disable_nosem is set, and the rules of the run.
C31_FilterAlwaysEvaluated ==
    pc = "returned" /\ args.fn = "main" =>
        LET by_rule == args.run.rule_matches_by_rule IN
        IF FilterRaises
        THEN /\ args.strict
             /\ IsNosemError(result[1].raised)
             /\ result[1].h.rule_matches = <<>>
             /\ result[1].h.stats_line = "None"
        ELSE /\ result[1].raised = None
             /\ result[1].h.rule_matches =
                    Flatten([i \in 1..Len(by_rule) |->
                               IF args.disable_nosem THEN by_rule[i][2]
                               ELSE NotSuppressed(by_rule[i][2])])
             /\ result[1].h.rules = Keys(by_rule)

\* strict mode with suppression disabled: the second match of r1 is annotated
\* for r2, and main() raised instead of passing the matches on
C31_Witness ==
    /\ pc = "returned"
    /\ args.fn = "main"
    /\ args.strict
    /\ args.disable_nosem
    /\ args.run.rule_matches_by_rule[1][2] = <<F1, N2>>
    /\ result[1].raised = SemgrepError(NosemMismatchMessage("r2", "r1"), "FATAL_EXIT_CODE")
    /\ result[1].h.rule_matches = <<>>

====
